---- MODULE Spec2Model ----
(***************************************************************************)
(* Resilix incident orchestrator: the per-incident pipeline               *)
(* (prometheus_webhook -> run_orchestrator -> apply_direct_integrations), *)
(* the approve-merge endpoint, the merge-gate policy and the session      *)
(* store, modelled for one incident id and two concurrent approve-merge   *)
(* requests under asyncio's cooperative scheduling.                       *)
(***************************************************************************)
EXTENDS Integers, Sequences, FiniteSets, TLC

VARIABLES
    cfg,        \* process configuration read by get_settings(), fixed after start
    gate,       \* runtime gate settings (require_ci_pass, require_codeowner_review)
    heap,       \* the dict objects holding incident states
    store,      \* MemorySessionStore._sessions[id] / the row: index into heap, 0 = absent
    running,    \* the task that holds the event loop (0 = none; it is free)
    wpc,        \* position of the webhook request
    winitial,   \* prometheus_webhook.initial_state
    wstate,     \* the state dict run_orchestrator works on
    werr,       \* the reasoning runner's error, if any
    apc,        \* position of each approve-merge request
    ref,        \* heap index of the state each approve-merge request holds
    aloc,       \* locals of each approve-merge request
    result,     \* HTTP outcome of each approve-merge request
    calls,      \* provider calls that took effect (and merges skipped), in order
    ghMerged,   \* the PR is merged on the code host
    napprove,   \* approve-merge requests issued so far
    nfaults,    \* provider calls that failed so far
    nreloads,   \* changes of the gate settings so far
    persistedOk \* a successful approve-merge has been saved

vars == <<cfg, gate, heap, store, running, wpc, winitial, wstate, werr,
          apc, ref, aloc, result, calls, ghMerged, napprove, nfaults, nreloads, persistedOk>>

wvars == <<wpc, winitial, wstate, werr>>
avars == <<apc, ref, aloc, result>>

----------------------------------------------------------------------------
(* Bounds *)

\* approve-merge requests issued in one run
MaxApprovals == 2
\* provider calls that fail (raise, or answer with a failure record) in one run
MaxFaults == 1
\* changes of the runtime gate settings in one run
MaxReloads == 1

\* two concurrent approve-merge requests; W is the webhook request
Reqs == {1, 2}
W == Cardinality(Reqs) + 1
\* the stored object, one object per request, one being written
Objs == {1, 2, 3, 4}

----------------------------------------------------------------------------
(* Incident state records *)

NoRemediation ==
    [present |-> FALSE, success |-> FALSE, pr_number |-> FALSE,
     pr_url |-> FALSE, pr_merged |-> FALSE, error_message |-> ""]

Blank ==
    [incident_id |-> "",
     remediation |-> NoRemediation,
     ci_status |-> "pending",
     codeowner_review_status |-> "pending",
     approval |-> [required |-> FALSE, approved |-> FALSE],
     policy |-> [require_ci_pass |-> FALSE, require_codeowner_review |-> FALSE],
     repository |-> FALSE,
     ticket_key |-> FALSE,
     resolved_at |-> FALSE,
     timeline |-> << >>,
     jira_transitions |-> << >>,
     execution_path |-> "none"]

FailedRemediation ==
    [present |-> TRUE, success |-> FALSE, pr_number |-> FALSE,
     pr_url |-> FALSE, pr_merged |-> FALSE, error_message |-> ""]

\* RemediationResult(success=False, pr_merged=False, error_message=...)
Failure(error_message) == [FailedRemediation EXCEPT !.error_message = error_message]

CreatedPr ==
    [present |-> TRUE, success |-> TRUE, pr_number |-> TRUE,
     pr_url |-> TRUE, pr_merged |-> FALSE, error_message |-> ""]

append_timeline_event(s, event_type) ==
    [s EXCEPT !.timeline = Append(@, event_type)]

----------------------------------------------------------------------------
(* Merge-gate policy *)

_has_pr(remediation) ==
    remediation.present /\ (remediation.pr_number \/ remediation.pr_url)

_is_merged(remediation) ==
    remediation.present /\ remediation.pr_merged

\* variant: the checks for approval come before the check of CI
evaluate_approval_first(s) ==
    IF ~_has_pr(s.remediation) THEN "pr_not_created"
    ELSE IF _is_merged(s.remediation) THEN "already_merged"
    ELSE IF ~s.approval.required THEN "approval_not_required"
    ELSE IF s.approval.approved THEN "already_approved"
    ELSE IF s.ci_status # "ci_passed" THEN "ci_not_passed"
    ELSE "eligible"

evaluate_approval_request(s) ==
    IF ~_has_pr(s.remediation) THEN "pr_not_created"
    ELSE IF _is_merged(s.remediation) THEN "already_merged"
    ELSE IF s.ci_status # "ci_passed" THEN "ci_not_passed"
    ELSE IF ~s.approval.required THEN "approval_not_required"
    ELSE IF s.approval.approved THEN "already_approved"
    ELSE "eligible"

\* variant: the approval leaves no mark on the state but resolved_at
apply_approval_unmarked(s) == [s EXCEPT !.resolved_at = TRUE]

apply_approval_and_merge(s) ==
    [s EXCEPT !.approval.approved = TRUE,
              !.remediation =
                  IF @.present THEN [@ EXCEPT !.pr_merged = TRUE]
                  ELSE [present |-> TRUE, success |-> TRUE, pr_number |-> FALSE,
                        pr_url |-> FALSE, pr_merged |-> TRUE,
                        error_message |-> ""],
              !.resolved_at = TRUE]


----------------------------------------------------------------------------
(* Session store, one incident id.  MemorySessionStore.get returns the stored
   dict itself; PostgresSessionStore.get returns a fresh value.  save stores
   a JSON copy in both. *)

Referenced(st, rf) == ({st} \cup {rf[r] : r \in Reqs}) \ {0}

\* objects nothing refers to any more are dropped
Collect(h, st, rf) ==
    [o \in Objs |-> IF o \in Referenced(st, rf) THEN h[o] ELSE Blank]

FreeObj ==
    CHOOSE o \in Objs : /\ o \notin Referenced(store, ref)
                        /\ \A p \in Objs : p < o => p \in Referenced(store, ref)

----------------------------------------------------------------------------
(* Scheduling: one event loop.  A task keeps the loop across an await that
   does not suspend (in-memory store, mock providers) and releases it at an
   await on real I/O. *)

YieldStore == cfg.backend = "postgres"
YieldJira == cfg.jira = "api"
YieldGithub == cfg.github = "api"

After(t, yields) == IF yields THEN 0 ELSE t

CanRun(t) == running \in {0, t}

----------------------------------------------------------------------------
(* Provider outcomes *)

Faulty == {"raise", "fail"}

\* failures are drawn only while the run's failure budget lasts
Budget(outcomes) == IF nfaults < MaxFaults THEN outcomes ELSE outcomes \ Faulty

Count(outcome) == nfaults' = IF outcome \in Faulty THEN nfaults + 1 ELSE nfaults

CreateTicketOutcomes == Budget(IF cfg.jira = "api" THEN {"ok", "raise"} ELSE {"ok"})

TransitionOutcomes ==
    Budget(IF cfg.jira = "api"
           THEN (IF cfg.strict THEN {"ok", "fail", "raise"} ELSE {"ok", "fail"})
           ELSE {"ok"})

CreatePrOutcomes == Budget(IF cfg.github = "api" THEN {"ok", "raise"} ELSE {"ok"})

GateAnswer(kind, ci, rev) == [kind |-> kind, ci_passed |-> ci, codeowner_reviewed |-> rev]

GateOutcomes ==
    IF cfg.github = "api"
    THEN {GateAnswer("ok", ci, rev) : ci \in BOOLEAN, rev \in BOOLEAN}
         \cup (IF nfaults < MaxFaults THEN {GateAnswer("raise", FALSE, FALSE)} ELSE {})
    ELSE {GateAnswer("ok", TRUE, TRUE)}

\* the code host merges an open PR once
MergeOutcomes ==
    IF cfg.github = "api"
    THEN Budget(IF ghMerged THEN {"false", "raise"} ELSE {"true", "false", "raise"})
    ELSE {"true"}

Call(op, ok, by) == [op |-> op, ok |-> ok, by |-> by]

----------------------------------------------------------------------------
(* prometheus_webhook and run_orchestrator *)

\* f"INC-{uuid4().hex[:8]}": the id drawn for the one incident of a run
IncidentId == "INC-1a2b3c4d"

InitialState ==
    [Blank EXCEPT !.approval = [required |-> cfg.require_pr_approval, approved |-> FALSE],
                  !.policy = [require_ci_pass |-> gate.require_ci_pass,
                              require_codeowner_review |-> gate.require_codeowner_review],
                  !.incident_id = IncidentId,
                  !.execution_path = "pending",
                  !.timeline = <<"incident_created">>]

\* variant: the incident id of the orchestrator's state is kept even if absent
MergedStateKeepsStateId(initial, state) ==
    [state EXCEPT !.approval = initial.approval,
                  !.policy = initial.policy,
                  !.timeline = initial.timeline \o state.timeline]

\* {**initial_state, **state} with the two timelines concatenated
MergedState(initial, state) ==
    [state EXCEPT !.incident_id = IF @ = "" THEN initial.incident_id ELSE @,
                  !.approval = initial.approval,
                  !.policy = initial.policy,
                  !.timeline = initial.timeline \o state.timeline]

_finalize_execution_trace(s, path) == [s EXCEPT !.execution_path = path]

_build_adk_unavailable_state ==
    _finalize_execution_trace([Blank EXCEPT !.remediation =
                                                Failure("adk_runtime_exception")],
                              "adk_unavailable")

\* run_orchestrator finalizes the state apply_direct_integrations returned
Finalized(s) ==
    _finalize_execution_trace(s, IF werr = "missing_tool" THEN "adk_recovered" ELSE "adk")

WebhookAccept ==
    /\ wpc = "idle"
    /\ CanRun(W)
    /\ winitial' = InitialState
    /\ wpc' = "save_initial"
    /\ running' = After(W, YieldStore)
    /\ UNCHANGED <<cfg, gate, heap, store, wstate, werr, avars,
                   calls, ghMerged, napprove, nfaults, nreloads, persistedOk>>

WebhookSaveInitial ==
    /\ wpc = "save_initial"
    /\ CanRun(W)
    /\ LET o == FreeObj IN
       /\ store' = o
       /\ heap' = Collect([heap EXCEPT ![o] = winitial], o, ref)
    /\ wpc' = "adk"
    /\ running' = 0
    /\ UNCHANGED <<cfg, gate, winitial, wstate, werr, avars,
                   calls, ghMerged, napprove, nfaults, nreloads, persistedOk>>

\* AdkRunner.run returns a state or raises; on a state, or on a missing-tool
\* error, apply_direct_integrations runs up to its first provider call.
\* repository: whether the thought signature ends up with a target repository.
AdkRun ==
    /\ wpc = "adk"
    /\ CanRun(W)
    /\ \E outcome \in {"ok"} \cup (IF nfaults < MaxFaults
                                  THEN {"missing_tool", "error"} ELSE {}),
          repository \in BOOLEAN :
         /\ werr' = IF outcome = "ok" THEN "none" ELSE outcome
         /\ nfaults' = IF outcome = "ok" THEN nfaults ELSE nfaults + 1
         /\ IF outcome = "error"
            THEN /\ repository
                 /\ wstate' = _build_adk_unavailable_state
                 /\ wpc' = "save_final"
                 /\ running' = After(W, YieldStore)
            ELSE /\ repository \/ outcome = "ok"
                 \* the ADK session state is created with the incident id;
                 \* the recovery starts from an empty state
                 /\ wstate' = [Blank EXCEPT !.repository = repository,
                                            !.incident_id =
                                                IF outcome = "ok" THEN winitial.incident_id
                                                ELSE ""]
                 /\ wpc' = "create_ticket"
                 /\ running' = After(W, YieldJira)
    /\ UNCHANGED <<cfg, gate, heap, store, winitial, avars,
                   calls, ghMerged, napprove, nreloads, persistedOk>>

----------------------------------------------------------------------------
(* apply_direct_integrations, one action per provider call *)

\* variant: the failed remediation carries no error message
TicketFailureUnexplained(s) ==
    [s EXCEPT !.ticket_key = FALSE,
              !.remediation = FailedRemediation,
              !.ci_status = "pending",
              !.codeowner_review_status = "pending"]

TicketFailure(s) ==
    [s EXCEPT !.ticket_key = FALSE,
              !.remediation = Failure("Jira provider failure"),
              !.ci_status = "pending",
              !.codeowner_review_status = "pending"]

PrFailure(s) ==
    [s EXCEPT !.ticket_key = TRUE,
              !.remediation = Failure("GitHub provider failure"),
              !.ci_status = "pending",
              !.codeowner_review_status = "pending"]

\* variant: a failure record leaves no event on the timeline
RecordTransitionSilent(s, target_status, event_type, ok) ==
    LET traced == [s EXCEPT !.jira_transitions =
                               Append(@, [to_status |-> target_status, ok |-> ok])]
    IN IF ok THEN append_timeline_event(traced, event_type) ELSE traced

\* _transition_jira_ticket once the provider answered ok or with a failure record
RecordTransition(s, target_status, event_type, ok) ==
    append_timeline_event(
        [s EXCEPT !.jira_transitions = Append(@, [to_status |-> target_status, ok |-> ok])],
        IF ok THEN event_type ELSE "ticket_transition_failed")

GateApplied(s, g) ==
    [s EXCEPT !.ci_status = IF g.ci_passed THEN "ci_passed" ELSE "pending",
              !.codeowner_review_status =
                  IF g.codeowner_reviewed THEN "approved" ELSE "pending"]

\* variant: without a repository the CI status stays as it was
NoGateStatusUnchanged(s) == s

NoGateStatus(s) ==
    [s EXCEPT !.ci_status = "ci_passed", !.codeowner_review_status = "pending"]

\* variant: the exception leaves run_orchestrator and ends the request
DiRaisedUncaught ==
    /\ wstate' = wstate
    /\ wpc' = "failed"
    /\ running' = 0

\* an exception leaving apply_direct_integrations is caught by run_orchestrator
DiRaised ==
    /\ wstate' = _build_adk_unavailable_state
    /\ wpc' = "save_final"
    /\ running' = After(W, YieldStore)

DiCreateTicket ==
    /\ wpc = "create_ticket"
    /\ CanRun(W)
    /\ \E outcome \in CreateTicketOutcomes :
         /\ Count(outcome)
         /\ IF outcome = "ok"
            THEN /\ calls' = Append(calls, Call("create_ticket", TRUE, W))
                 /\ wstate' = append_timeline_event(wstate, "ticket_created")
                 /\ wpc' = "todo"
                 /\ running' = After(W, YieldJira)
            ELSE /\ calls' = calls
                 /\ wstate' = Finalized(TicketFailure(wstate))
                 /\ wpc' = "save_final"
                 /\ running' = After(W, YieldStore)
    /\ UNCHANGED <<cfg, gate, heap, store, winitial, werr, avars,
                   ghMerged, napprove, nreloads, persistedOk>>

StageStatus(stage) ==
    CASE stage = "todo" -> "To Do"
      [] stage = "in_progress" -> "In Progress"
      [] stage = "in_review" -> "In Review"
      [] OTHER -> "Done"

\* the order of the provider calls that follow the ticket's creation
NextStage(stage) ==
    CASE stage = "todo" -> "in_progress"
      [] stage = "in_progress" -> "in_review"
      [] OTHER -> "create_pr"

DiTransition ==
    /\ wpc \in {"todo", "in_progress", "in_review"}
    /\ CanRun(W)
    /\ \E outcome \in TransitionOutcomes :
         /\ Count(outcome)
         /\ IF outcome = "raise"
            THEN /\ calls' = calls
                 /\ DiRaised
            ELSE /\ calls' = Append(calls, Call("transition_" \o wpc, outcome = "ok", W))
                 /\ wstate' = RecordTransition(wstate, StageStatus(wpc),
                                               "ticket_moved_" \o wpc, outcome = "ok")
                 /\ wpc' = NextStage(wpc)
                 /\ running' = After(W, IF NextStage(wpc) = "create_pr"
                                        THEN YieldGithub ELSE YieldJira)
    /\ UNCHANGED <<cfg, gate, heap, store, winitial, werr, avars,
                   ghMerged, napprove, nreloads, persistedOk>>

DiCreatePr ==
    /\ wpc = "create_pr"
    /\ CanRun(W)
    /\ \E outcome \in CreatePrOutcomes :
         /\ Count(outcome)
         /\ IF outcome = "ok"
            THEN /\ calls' = Append(calls, Call("create_pr", TRUE, W))
                 /\ wstate' = [append_timeline_event(wstate, "pr_created")
                                  EXCEPT !.ticket_key = TRUE, !.remediation = CreatedPr]
                 /\ wpc' = "gate"
                 /\ running' = IF wstate.repository THEN After(W, YieldGithub) ELSE W
            ELSE /\ calls' = calls
                 /\ wstate' = Finalized(PrFailure(wstate))
                 /\ wpc' = "save_final"
                 /\ running' = After(W, YieldStore)
    /\ UNCHANGED <<cfg, gate, heap, store, winitial, werr, avars,
                   ghMerged, napprove, nreloads, persistedOk>>

DiGate ==
    /\ wpc = "gate"
    /\ CanRun(W)
    /\ IF wstate.repository
       THEN \E g \in GateOutcomes :
              /\ Count(g.kind)
              /\ IF g.kind = "raise"
                 THEN DiRaised
                 ELSE /\ wstate' = Finalized(GateApplied(wstate, g))
                      /\ wpc' = "save_final"
                      /\ running' = After(W, YieldStore)
       ELSE /\ wstate' = Finalized(NoGateStatus(wstate))
            /\ wpc' = "save_final"
            /\ running' = After(W, YieldStore)
            /\ nfaults' = nfaults
    /\ UNCHANGED <<cfg, gate, heap, store, winitial, werr, avars,
                   calls, ghMerged, napprove, nreloads, persistedOk>>

WebhookSaveFinal ==
    /\ wpc = "save_final"
    /\ CanRun(W)
    /\ LET o == FreeObj IN
       /\ store' = o
       /\ heap' = Collect([heap EXCEPT ![o] = MergedState(winitial, wstate)], o, ref)
    /\ wpc' = "done"
    /\ running' = 0
    \* the request returns: its locals are gone
    /\ winitial' = Blank
    /\ wstate' = Blank
    /\ werr' = "none"
    /\ UNCHANGED <<cfg, gate, avars,
                   calls, ghMerged, napprove, nfaults, nreloads, persistedOk>>

----------------------------------------------------------------------------
(* approve_merge, one action per await *)

NoLocals ==
    [pr_number |-> FALSE, repository |-> FALSE, after_success |-> FALSE,
     merge_called |-> FALSE, touched |-> FALSE]

StateOf(r) == heap[ref[r]]

\* the request ends: its locals go, the loop is free
Finish(r, outcome, h) ==
    /\ result' = [result EXCEPT ![r] = outcome]
    /\ apc' = [apc EXCEPT ![r] = "idle"]
    /\ ref' = [ref EXCEPT ![r] = 0]
    /\ aloc' = [aloc EXCEPT ![r] = NoLocals]
    /\ heap' = Collect(h, store', ref')
    /\ running' = 0

\* variant: a rejected request saves the state it holds
RejectAndSave(r, code) ==
    LET o == FreeObj IN
    /\ store' = o
    /\ Finish(r, code, [heap EXCEPT ![o] = StateOf(r)])

\* raise HTTPException(409): nothing is saved
Reject(r, code) ==
    /\ store' = store
    /\ Finish(r, code, heap)

\* policy[...] = settings.require_...
PolicyRefreshed(s) ==
    [s EXCEPT !.policy = [require_ci_pass |-> gate.require_ci_pass,
                          require_codeowner_review |-> gate.require_codeowner_review]]

ApproveStart(r) ==
    /\ apc[r] = "idle"
    /\ \A q \in Reqs : q < r => apc[q] # "idle"
    /\ napprove < MaxApprovals
    /\ CanRun(r)
    /\ napprove' = napprove + 1
    /\ apc' = [apc EXCEPT ![r] = "get"]
    /\ result' = [result EXCEPT ![r] = "none"]
    /\ running' = After(r, YieldStore)
    /\ UNCHANGED <<cfg, gate, heap, store, wvars, ref, aloc,
                   calls, ghMerged, nfaults, nreloads, persistedOk>>

ApproveGet(r) ==
    /\ apc[r] = "get"
    /\ CanRun(r)
    /\ IF store = 0
       THEN /\ store' = store
            /\ Finish(r, "not_found", heap)
       ELSE LET o == IF cfg.backend = "memory" THEN store ELSE FreeObj
                s == PolicyRefreshed(heap[store])
                fetch == /\ cfg.github = "api"
                         /\ s.remediation.pr_number
                         /\ s.repository
            IN /\ heap' = [heap EXCEPT ![o] = s]
               /\ ref' = [ref EXCEPT ![r] = o]
               /\ aloc' = [aloc EXCEPT ![r] =
                              [pr_number |-> s.remediation.pr_number,
                               repository |-> s.repository,
                               after_success |-> persistedOk,
                               merge_called |-> FALSE,
                               touched |-> heap'[store] # heap[store]]]
               /\ apc' = [apc EXCEPT ![r] = IF fetch THEN "gate" ELSE "evaluate"]
               /\ running' = IF fetch THEN 0 ELSE r
               /\ UNCHANGED <<store, result>>
    /\ UNCHANGED <<cfg, gate, wvars, calls, ghMerged, napprove, nfaults, nreloads, persistedOk>>

\* get_merge_gate_status answered (github_api only)
ApproveGate(r) ==
    /\ apc[r] = "gate"
    /\ CanRun(r)
    /\ \E g \in GateOutcomes :
         /\ Count(g.kind)
         /\ IF g.kind = "raise"
            THEN /\ store' = store
                 /\ Finish(r, "error", heap)
            ELSE /\ heap' = [heap EXCEPT ![ref[r]] = GateApplied(@, g)]
                 /\ aloc' = [aloc EXCEPT ![r].touched = @ \/ heap'[store] # heap[store]]
                 /\ apc' = [apc EXCEPT ![r] = "evaluate"]
                 /\ running' = r
                 /\ UNCHANGED <<store, ref, result>>
    /\ UNCHANGED <<cfg, gate, wvars, calls, ghMerged, napprove, nreloads, persistedOk>>

\* variant: the approval is applied before the merge call is made
StateAppliedEarly(s) == apply_approval_and_merge(s)

\* what approve_merge does to the state between the policy's verdict and the merge call
StateBeforeMerge(s) == s

\* apply_approval_and_merge(state); append_timeline_event(state, PR_MERGED)
StateAfterMerge(s) == append_timeline_event(apply_approval_and_merge(s), "pr_merged")

ApproveEvaluate(r) ==
    /\ apc[r] = "evaluate"
    /\ CanRun(r)
    /\ LET decision == evaluate_approval_request(StateOf(r))
           call == aloc[r].pr_number /\ aloc[r].repository
       IN IF decision # "eligible"
          THEN Reject(r, decision)
          ELSE /\ heap' = [heap EXCEPT ![ref[r]] = StateBeforeMerge(@)]
               /\ aloc' = [aloc EXCEPT ![r].merge_called = call]
               /\ apc' = [apc EXCEPT ![r] = "merge"]
               /\ running' = IF call THEN After(r, YieldGithub) ELSE r
               /\ UNCHANGED <<store, ref, result>>
    /\ UNCHANGED <<cfg, gate, wvars, calls, ghMerged, napprove, nfaults, nreloads, persistedOk>>

ApproveMerge(r) ==
    /\ apc[r] = "merge"
    /\ CanRun(r)
    /\ \E outcome \in (IF aloc[r].merge_called THEN MergeOutcomes ELSE {"skipped"}) :
         /\ Count(outcome)
         /\ CASE outcome = "raise" ->
                   /\ store' = store
                   /\ Finish(r, "error", heap)
                   /\ UNCHANGED <<calls, ghMerged>>
              [] outcome = "false" ->
                   /\ Reject(r, "merge_failed")
                   /\ UNCHANGED <<calls, ghMerged>>
              [] OTHER ->
                   /\ heap' = [heap EXCEPT ![ref[r]] = StateAfterMerge(@)]
                   /\ calls' = Append(calls, Call(IF outcome = "true" THEN "merge_pr"
                                                   ELSE "merge_skipped", TRUE, r))
                   /\ ghMerged' = (ghMerged \/ outcome = "true")
                   /\ apc' = [apc EXCEPT ![r] = "transition"]
                   /\ running' = IF StateOf(r).ticket_key THEN After(r, YieldJira) ELSE r
                   /\ UNCHANGED <<store, ref, aloc, result>>
    /\ UNCHANGED <<cfg, gate, wvars, napprove, nreloads, persistedOk>>

ApproveTransition(r) ==
    /\ apc[r] = "transition"
    /\ CanRun(r)
    /\ IF StateOf(r).ticket_key
       THEN \E outcome \in TransitionOutcomes :
              /\ Count(outcome)
              /\ IF outcome = "raise"
                 THEN /\ store' = store
                      /\ Finish(r, "error", heap)
                      /\ calls' = calls
                 ELSE /\ calls' = Append(calls, Call("transition_done", outcome = "ok", r))
                      /\ heap' = [heap EXCEPT ![ref[r]] =
                                     append_timeline_event(
                                         RecordTransition(@, StageStatus("done"),
                                                          "ticket_moved_done", outcome = "ok"),
                                         "incident_resolved")]
                      /\ apc' = [apc EXCEPT ![r] = "save"]
                      /\ running' = After(r, YieldStore)
                      /\ UNCHANGED <<store, ref, aloc, result>>
       ELSE /\ heap' = [heap EXCEPT ![ref[r]] = append_timeline_event(@, "incident_resolved")]
            /\ apc' = [apc EXCEPT ![r] = "save"]
            /\ running' = After(r, YieldStore)
            /\ UNCHANGED <<store, ref, aloc, result, calls, nfaults>>
    /\ UNCHANGED <<cfg, gate, wvars, ghMerged, napprove, nreloads, persistedOk>>

ApproveSave(r) ==
    /\ apc[r] = "save"
    /\ CanRun(r)
    /\ LET o == FreeObj IN
       /\ store' = o
       /\ Finish(r, "ok", [heap EXCEPT ![o] = StateOf(r)])
    /\ persistedOk' = TRUE
    /\ UNCHANGED <<cfg, gate, wvars, calls, ghMerged, napprove, nfaults, nreloads>>

----------------------------------------------------------------------------
(* The runtime gate settings change between requests *)

GateSettings == [require_ci_pass : BOOLEAN, require_codeowner_review : BOOLEAN]

\* an operator changes the settings once the incident is open, with no
\* approve-merge request in flight
ReloadGateSettings ==
    /\ running = 0
    /\ wpc = "done"
    /\ \A r \in Reqs : apc[r] = "idle"
    /\ nreloads < MaxReloads
    /\ nreloads' = nreloads + 1
    /\ \E g \in GateSettings \ {gate} : gate' = g
    /\ UNCHANGED <<cfg, heap, store, running, wvars, avars,
                   calls, ghMerged, napprove, nfaults, persistedOk>>

----------------------------------------------------------------------------
(* The service: one incident, its webhook request and the approve-merge
   requests on it *)

Configurations ==
    {c \in [backend : {"memory", "postgres"}, github : {"api", "mock"},
            jira : {"api", "mock"}, strict : BOOLEAN, require_pr_approval : BOOLEAN] :
        c.jira = "mock" => ~c.strict}

Idle ==
    /\ heap = [o \in Objs |-> Blank]
    /\ store = 0
    /\ running = 0
    /\ winitial = Blank
    /\ werr = "none"
    /\ apc = [r \in Reqs |-> "idle"]
    /\ ref = [r \in Reqs |-> 0]
    /\ aloc = [r \in Reqs |-> NoLocals]
    /\ result = [r \in Reqs |-> "none"]
    /\ calls = <<>>
    /\ ghMerged = FALSE
    /\ napprove = 0
    /\ nfaults = 0
    /\ nreloads = 0
    /\ persistedOk = FALSE

Init ==
    /\ cfg \in Configurations
    /\ gate \in GateSettings
    /\ wpc = "idle"
    /\ wstate = Blank
    /\ Idle

Webhook ==
    \/ WebhookAccept
    \/ WebhookSaveInitial
    \/ AdkRun
    \/ DiCreateTicket
    \/ DiTransition
    \/ DiCreatePr
    \/ DiGate
    \/ WebhookSaveFinal

Approve ==
    \E r \in Reqs :
        \/ ApproveStart(r)
        \/ ApproveGet(r)
        \/ ApproveGate(r)
        \/ ApproveEvaluate(r)
        \/ ApproveMerge(r)
        \/ ApproveTransition(r)
        \/ ApproveSave(r)

Next == Webhook \/ Approve \/ ReloadGateSettings

Spec == Init /\ [][Next]_vars

\* the event loop runs every task that is ready: a request that can take a
\* step is not passed over for ever
SpecLive == Spec /\ WF_vars(Webhook) /\ WF_vars(Approve)

----------------------------------------------------------------------------
(* The service with both providers in mock mode: approve_merge never
   fetches the gate *)

MockConfigurations ==
    {c \in Configurations : c.github = "mock" /\ c.jira = "mock"}

InitMock ==
    /\ cfg \in MockConfigurations
    /\ gate \in GateSettings
    /\ wpc = "idle"
    /\ wstate = Blank
    /\ Idle

ApproveMock ==
    \E r \in Reqs :
        \/ ApproveStart(r)
        \/ ApproveGet(r)
        \/ ApproveEvaluate(r)
        \/ ApproveMerge(r)
        \/ ApproveTransition(r)
        \/ ApproveSave(r)

NextMock == Webhook \/ ApproveMock \/ ReloadGateSettings

SpecMock == InitMock /\ [][NextMock]_vars

----------------------------------------------------------------------------
(* The merge-gate policy on its own: evaluate_approval_request and
   apply_approval_and_merge applied to every state of PolicyInputs *)

Remediations ==
    [present : BOOLEAN, success : {TRUE}, pr_number : BOOLEAN,
     pr_url : BOOLEAN, pr_merged : BOOLEAN, error_message : {""}]

PolicyInputs ==
    {[Blank EXCEPT !.remediation = rem,
                   !.ci_status = ci,
                   !.codeowner_review_status = rev,
                   !.approval = ap,
                   !.policy = pol] :
        rem \in Remediations,
        ci \in {"pending", "ci_passed"},
        rev \in {"pending", "approved"},
        ap \in [required : BOOLEAN, approved : BOOLEAN],
        pol \in GateSettings}

InitPolicy ==
    /\ cfg = [backend |-> "memory", github |-> "mock", jira |-> "mock",
              strict |-> FALSE, require_pr_approval |-> TRUE]
    /\ gate = [require_ci_pass |-> TRUE, require_codeowner_review |-> TRUE]
    /\ wpc = "policy"
    /\ wstate \in PolicyInputs
    /\ Idle

PolicyEvaluate ==
    /\ wpc \in {"policy", "policy_applied"}
    /\ result' = [result EXCEPT ![1] = evaluate_approval_request(wstate)]
    /\ wpc' = "policy_decided"
    /\ UNCHANGED <<cfg, gate, heap, store, running, winitial, wstate, werr, apc, ref,
                   aloc, calls, ghMerged, napprove, nfaults, nreloads, persistedOk>>

PolicyApply ==
    /\ wpc = "policy_decided"
    /\ result[1] = "eligible"
    /\ wstate' = apply_approval_and_merge(wstate)
    /\ wpc' = "policy_applied"
    /\ UNCHANGED <<cfg, gate, heap, store, running, winitial, werr, avars,
                   calls, ghMerged, napprove, nfaults, nreloads, persistedOk>>

NextPolicy == PolicyEvaluate \/ PolicyApply

SpecPolicy == InitPolicy /\ [][NextPolicy]_vars

----------------------------------------------------------------------------
(* The externally visible status: <<status, approval_status, pr_status>> *)

\* variant: a merged PR reports the approval the approval record holds
derive_status_by_record(s) ==
    LET remediation == s.remediation
        has_pr == remediation.pr_number \/ remediation.pr_url
    IN IF remediation.present /\ has_pr /\ remediation.pr_merged
       THEN <<"resolved",
              IF s.approval.approved THEN "approved"
              ELSE IF s.approval.required THEN "pending" ELSE "not_required",
              "merged">>
       ELSE <<"processing", "not_required", "not_created">>

derive_status_fields(s) ==
    LET remediation == s.remediation
        has_pr == remediation.pr_number \/ remediation.pr_url
    IN IF ~remediation.present
       THEN <<"processing", "not_required", "not_created">>
       ELSE IF ~has_pr
       THEN (IF remediation.success
             THEN <<"resolved", "not_required", "not_created">>
             ELSE <<"processing", "not_required", "not_created">>)
       ELSE IF remediation.pr_merged
       THEN <<"resolved", "approved", "merged">>
       ELSE IF s.ci_status = "ci_passed"
       THEN (IF s.approval.required /\ ~s.approval.approved
             THEN <<"awaiting_approval", "pending", "ci_passed">>
             ELSE IF s.approval.required /\ s.approval.approved
             THEN <<"merging", "approved", "ci_passed">>
             ELSE <<"merging", "not_required", "ci_passed">>)
       ELSE IF s.approval.required
       THEN <<"processing", "pending", "pending_ci">>
       ELSE <<"processing", "not_required", "pending_ci">>

----------------------------------------------------------------------------
(* The incident mapper on its own: derive_status_fields applied to every
   state of StatusInputs *)

StatusInputs ==
    {[Blank EXCEPT !.remediation = rem, !.ci_status = ci, !.approval = ap] :
        rem \in [present : BOOLEAN, success : BOOLEAN, pr_number : BOOLEAN,
                 pr_url : BOOLEAN, pr_merged : BOOLEAN, error_message : {""}],
        ci \in {"pending", "ci_passed"},
        ap \in [required : BOOLEAN, approved : BOOLEAN]}

InitStatus ==
    /\ cfg = [backend |-> "memory", github |-> "mock", jira |-> "mock",
              strict |-> FALSE, require_pr_approval |-> TRUE]
    /\ gate = [require_ci_pass |-> TRUE, require_codeowner_review |-> TRUE]
    /\ wpc = "status"
    /\ wstate \in StatusInputs
    /\ Idle

\* state_to_incident_detail: status, approval_status, pr_status = derive_status_fields(state)
StatusDerive ==
    /\ wpc = "status"
    /\ result' = [result EXCEPT ![1] = derive_status_fields(wstate)]
    /\ wpc' = "status_derived"
    /\ UNCHANGED <<cfg, gate, heap, store, running, winitial, wstate, werr, apc, ref,
                   aloc, calls, ghMerged, napprove, nfaults, nreloads, persistedOk>>

NextStatus == StatusDerive

SpecStatus == InitStatus /\ [][NextStatus]_vars

----------------------------------------------------------------------------
(* compute_mttr.  Instants are in microseconds, the resolution of datetime;
   mttr_seconds has three decimals and is held in milliseconds. *)

\* Optional[...]: None, or a value
None == << >>
Some(value) == <<value>>
ValueOf(optional) == optional[1]

\* round(delta.total_seconds(), 3): the nearest millisecond; at a half the
\* binary value of the float decides between the two neighbours
RoundMillis(micros) ==
    LET q == micros \div 1000
        rest == micros % 1000
    IN IF rest < 500 THEN {Some(q)}
       ELSE IF rest > 500 THEN {Some(q + 1)}
       ELSE {Some(q), Some(q + 1)}

\* variant: the difference is rounded whatever its sign
compute_mttr_signed(created_at, resolved_at) ==
    IF resolved_at = None THEN {None}
    ELSE IF ValueOf(resolved_at) < created_at
    THEN {Some(0 - ValueOf(m)) : m \in RoundMillis(created_at - ValueOf(resolved_at))}
    ELSE RoundMillis(ValueOf(resolved_at) - created_at)

\* the values compute_mttr can return
compute_mttr(created_at, resolved_at) ==
    IF resolved_at = None THEN {None}
    ELSE IF ValueOf(resolved_at) < created_at THEN {None}
    ELSE RoundMillis(ValueOf(resolved_at) - created_at)

Instants == {0, 1, 499, 500, 501, 1000, 1500, 2000, 2500, 42000000}

InitMttr ==
    /\ cfg = [backend |-> "memory", github |-> "mock", jira |-> "mock",
              strict |-> FALSE, require_pr_approval |-> TRUE]
    /\ gate = [require_ci_pass |-> TRUE, require_codeowner_review |-> TRUE]
    /\ wpc = "mttr"
    /\ wstate \in [created_at : Instants,
                    resolved_at : {Some(t) : t \in Instants} \cup {None}]
    /\ Idle

\* state_to_incident_detail: mttr_seconds=compute_mttr(created_at, resolved_at)
MttrCompute ==
    /\ wpc = "mttr"
    /\ \E mttr_seconds \in compute_mttr(wstate.created_at, wstate.resolved_at) :
         result' = [result EXCEPT ![1] = mttr_seconds]
    /\ wpc' = "mttr_computed"
    /\ UNCHANGED <<cfg, gate, heap, store, running, winitial, wstate, werr, apc, ref,
                   aloc, calls, ghMerged, napprove, nfaults, nreloads, persistedOk>>

NextMttr == MttrCompute

SpecMttr == InitMttr /\ [][NextMttr]_vars

----------------------------------------------------------------------------
(* The provider router: get_ticket_provider, get_code_provider and
   get_provider_readiness, and the admission check of prometheus_webhook.
   Here cfg.jira and cfg.github hold the modes as configured, and cfg holds
   the credential fields. *)

\* value.strip().lower(), for the strings the configurations below hold
StripLower(value) ==
    CASE value = "API " -> "api"
      [] value = "Mock" -> "mock"
      [] value = "PLACEHOLDER" -> "placeholder"
      [] value = " ChangeMe " -> "changeme"
      [] value = " " -> ""
      [] value = "PLACEHOLDER_OWNER" -> "placeholder_owner"
      [] value = "PLACEHOLDER_JIRA_PROJECT_KEY" -> "placeholder_jira_project_key"
      [] value = "Done" -> "done"
      [] value = " DONE " -> "done"
      [] value = "Closed" -> "closed"
      [] value = "Close Issue" -> "close issue"
      [] value = "Start Work" -> "start work"
      [] value = "In Progress" -> "in progress"
      [] OTHER -> value

Upper(provider) == IF provider = "jira" THEN "JIRA" ELSE "GITHUB"

_PLACEHOLDERS ==
    {"", "placeholder", "placeholder_github_token", "placeholder_jira_api_token",
     "placeholder_jira_url", "placeholder_jira_username",
     "placeholder_jira_project_key", "placeholder_owner"}

_usable(value) ==
    IF value = None THEN FALSE
    ELSE StripLower(ValueOf(value)) \notin _PLACEHOLDERS

ProviderConfigError(provider, mode, reason_code, missing_or_invalid_fields) ==
    [raised |-> TRUE, provider |-> provider, mode |-> mode,
     reason_code |-> reason_code,
     missing_or_invalid_fields |-> missing_or_invalid_fields]

Returned(provider, backend) ==
    [raised |-> FALSE, provider |-> provider, resolved_backend |-> backend]

\* the normalized mode, or the ProviderConfigError raised
_normalize_mode(provider, mode) ==
    IF StripLower(mode) \in {"api", "mock"}
    THEN [raised |-> FALSE, mode |-> StripLower(mode)]
    ELSE ProviderConfigError(provider, mode, "invalid_mode",
                             <<Upper(provider) \o "_INTEGRATION_MODE">>)

SettingOf(settings, field) ==
    CASE field = "JIRA_URL" -> settings.jira_url
      [] field = "JIRA_USERNAME" -> settings.jira_username
      [] field = "JIRA_API_TOKEN" -> settings.jira_api_token
      [] field = "JIRA_PROJECT_KEY" -> settings.jira_project_key
      [] field = "GITHUB_TOKEN" -> settings.github_token
      [] field = "GITHUB_OWNER" -> settings.github_owner

Missing(settings, fields) ==
    SelectSeq(fields, LAMBDA field : ~_usable(SettingOf(settings, field)))

_missing_jira_fields(settings) ==
    Missing(settings, <<"JIRA_URL", "JIRA_USERNAME", "JIRA_API_TOKEN", "JIRA_PROJECT_KEY">>)

_missing_github_fields(settings) ==
    Missing(settings, <<"GITHUB_TOKEN", "GITHUB_OWNER">>)

get_ticket_provider(settings) ==
    LET mode == _normalize_mode("jira", settings.jira)
        missing == _missing_jira_fields(settings)
    IN IF mode.raised THEN mode
       ELSE IF mode.mode = "mock" THEN Returned("MockTicketProvider", "jira_mock")
       ELSE IF missing # << >>
       THEN ProviderConfigError("jira", mode.mode, "missing_or_invalid_config", missing)
       ELSE Returned("JiraDirectProvider", "jira_api")

\* variant: without credentials the mock provider stands in
get_code_provider_fallback(settings) ==
    LET mode == _normalize_mode("github", settings.github)
    IN IF mode.raised THEN mode
       ELSE IF mode.mode = "mock" \/ _missing_github_fields(settings) # << >>
       THEN Returned("MockCodeProvider", "github_mock")
       ELSE Returned("GithubDirectProvider", "github_api")

get_code_provider(settings) ==
    LET mode == _normalize_mode("github", settings.github)
        missing == _missing_github_fields(settings)
    IN IF mode.raised THEN mode
       ELSE IF mode.mode = "mock" THEN Returned("MockCodeProvider", "github_mock")
       ELSE IF missing # << >>
       THEN ProviderConfigError("github", mode.mode, "missing_or_invalid_config", missing)
       ELSE Returned("GithubDirectProvider", "github_api")

\* variant: the mode is compared as configured, and mock mode reports ok
ProviderReadinessAsConfigured(provider_name, mode_value, missing_fields) ==
    IF mode_value = "mock"
    THEN [ready |-> TRUE, resolved_backend |-> provider_name \o "_mock",
          reason |-> "ok", missing_fields |-> << >>]
    ELSE IF mode_value # "api"
    THEN [ready |-> FALSE, resolved_backend |-> "unavailable",
          reason |-> "invalid_mode",
          missing_fields |-> <<Upper(provider_name) \o "_INTEGRATION_MODE">>]
    ELSE [ready |-> missing_fields = << >>,
          resolved_backend |-> provider_name \o "_api",
          reason |-> "ok", missing_fields |-> missing_fields]

\* one pass of the loop of get_provider_readiness
ProviderReadiness(provider_name, mode_value, missing_fields) ==
    LET mode == _normalize_mode(provider_name, mode_value)
    IN IF mode.raised
       THEN [ready |-> FALSE, resolved_backend |-> "unavailable",
             reason |-> mode.reason_code,
             missing_fields |-> mode.missing_or_invalid_fields]
       ELSE IF mode.mode = "mock"
       THEN [ready |-> TRUE, resolved_backend |-> provider_name \o "_mock",
             reason |-> "mock_mode", missing_fields |-> << >>]
       ELSE IF missing_fields # << >>
       THEN [ready |-> FALSE, resolved_backend |-> "unavailable",
             reason |-> "missing_or_invalid_config",
             missing_fields |-> missing_fields]
       ELSE [ready |-> TRUE, resolved_backend |-> provider_name \o "_api",
             reason |-> "ok", missing_fields |-> << >>]

get_provider_readiness(settings) ==
    [jira |-> ProviderReadiness("jira", settings.jira, _missing_jira_fields(settings)),
     github |-> ProviderReadiness("github", settings.github,
                                  _missing_github_fields(settings))]

Http(status_code, detail) == [status_code |-> status_code, detail |-> detail]

ProviderNotReady(provider, reason, missing_fields) ==
    Http(503, [code |-> "provider_not_ready", provider |-> provider,
               reason |-> reason, missing_fields |-> missing_fields])

\* variant: only a provider in api mode is checked
ModeCheckApiOnly(provider, mode_value, provider_readiness) ==
    IF StripLower(mode_value) = "api" /\ ~provider_readiness.ready
    THEN ProviderNotReady(provider, provider_readiness.reason,
                          provider_readiness.missing_fields)
    ELSE None

\* the check of one provider in prometheus_webhook: the 503 raised, or None
ModeCheck(provider, mode_value, provider_readiness) ==
    LET mode == StripLower(mode_value)
    IN IF mode = "api" /\ ~provider_readiness.ready
       THEN ProviderNotReady(provider, provider_readiness.reason,
                             provider_readiness.missing_fields)
       ELSE IF mode \notin {"api", "mock"}
       THEN ProviderNotReady(provider, "invalid_mode",
                             <<Upper(provider) \o "_INTEGRATION_MODE">>)
       ELSE None

\* the response that ends prometheus_webhook before an incident id is
\* assigned, or None
Admission(settings, payload) ==
    LET readiness == get_provider_readiness(settings)
        jira == ModeCheck("jira", settings.jira, readiness.jira)
        github == ModeCheck("github", settings.github, readiness.github)
    IN IF payload = "invalid" THEN Http(400, "Invalid payload")
       ELSE IF jira # None THEN jira
       ELSE github

Modes == {"api", "API ", "mock", "Mock", "disabled"}

OptionalValues == {None, Some("PLACEHOLDER"), Some("configured")}
OwnerValues == {Some("PLACEHOLDER_OWNER"), Some(" "), Some("configured")}
ProjectKeyValues == {Some("PLACEHOLDER_JIRA_PROJECT_KEY"), Some("configured")}

ProviderConfigurations ==
    [backend : {"memory"}, strict : {FALSE}, require_pr_approval : {TRUE},
     jira : Modes, github : Modes,
     jira_url : OptionalValues, jira_username : OptionalValues,
     jira_api_token : OptionalValues, jira_project_key : ProjectKeyValues,
     github_token : OptionalValues, github_owner : OwnerValues]

InitProviders ==
    /\ cfg \in ProviderConfigurations
    /\ gate = [require_ci_pass |-> TRUE, require_codeowner_review |-> TRUE]
    /\ wpc = "request"
    /\ wstate = Blank
    /\ Idle

\* prometheus_webhook up to its first await on the store
WebhookAdmission ==
    /\ wpc = "request"
    /\ \E payload \in {"valid", "invalid"} :
         LET response == Admission(cfg, payload)
         IN IF response # None
            THEN /\ result' = [result EXCEPT ![1] = response]
                 /\ wpc' = "rejected"
                 /\ UNCHANGED winitial
            ELSE /\ winitial' = InitialState
                 /\ wpc' = "save_initial"
                 /\ UNCHANGED result
    /\ UNCHANGED <<cfg, gate, heap, store, running, wstate, werr, apc, ref,
                   aloc, calls, ghMerged, napprove, nfaults, nreloads, persistedOk>>

GetTicketProvider ==
    /\ wpc = "request"
    /\ result' = [result EXCEPT ![1] = get_ticket_provider(cfg)]
    /\ wpc' = "ticket_provider"
    /\ UNCHANGED <<cfg, gate, heap, store, running, winitial, wstate, werr, apc, ref,
                   aloc, calls, ghMerged, napprove, nfaults, nreloads, persistedOk>>

GetCodeProvider ==
    /\ wpc = "request"
    /\ result' = [result EXCEPT ![1] = get_code_provider(cfg)]
    /\ wpc' = "code_provider"
    /\ UNCHANGED <<cfg, gate, heap, store, running, winitial, wstate, werr, apc, ref,
                   aloc, calls, ghMerged, napprove, nfaults, nreloads, persistedOk>>

GetProviderReadiness ==
    /\ wpc = "request"
    /\ result' = [result EXCEPT ![1] = get_provider_readiness(cfg)]
    /\ wpc' = "readiness"
    /\ UNCHANGED <<cfg, gate, heap, store, running, winitial, wstate, werr, apc, ref,
                   aloc, calls, ghMerged, napprove, nfaults, nreloads, persistedOk>>

NextProviders ==
    \/ WebhookAdmission
    \/ WebhookSaveInitial
    \/ GetTicketProvider
    \/ GetCodeProvider
    \/ GetProviderReadiness

SpecProviders == InitProviders /\ [][NextProviders]_vars

----------------------------------------------------------------------------
(* JiraDirectProvider.transition_ticket and its choice of a transition.
   Here cfg.strict and cfg.jira_transition_aliases configure the provider
   and wstate holds the call: the target status and the transitions Jira
   offers for the ticket. *)

\* transitions offered for one ticket
MaxTransitions == 3

\* _parse_aliases, for the values of JIRA_TRANSITION_ALIASES below
_parse_aliases(raw) ==
    CASE raw = "done:Close Issue|Resolve" -> [done |-> {"close issue", "resolve"}]
      [] raw = "{\"Done\": [\"Closed\"]}" -> [done |-> {"closed"}]
      [] OTHER -> << >>

_alias_set(aliases, target_status) ==
    LET key == StripLower(target_status)
    IN (IF key \in DOMAIN aliases THEN aliases[key] ELSE {}) \cup {key}

\* variant: the first transition that matches by name or by destination
_select_first_match(aliases, transitions, target_status) ==
    LET targets == _alias_set(aliases, target_status)
        matches == {i \in DOMAIN transitions :
                       \/ StripLower(transitions[i].name) \in targets
                       \/ StripLower(transitions[i].to) \in targets}
    IN IF matches = {} THEN None
       ELSE Some(transitions[CHOOSE i \in matches : \A j \in matches : i <= j])

\* the loop of _select_transition from position i on
RECURSIVE SelectFrom(_, _, _, _)
SelectFrom(transitions, targets, i, status_name_match) ==
    IF i > Len(transitions) THEN status_name_match
    ELSE IF StripLower(transitions[i].name) \in targets THEN Some(transitions[i])
    ELSE IF StripLower(transitions[i].to) \in targets /\ status_name_match = None
    THEN SelectFrom(transitions, targets, i + 1, Some(transitions[i]))
    ELSE SelectFrom(transitions, targets, i + 1, status_name_match)

_select_transition(aliases, transitions, target_status) ==
    SelectFrom(transitions, _alias_set(aliases, target_status), 1, None)

TransitionResult(ok, to_status, applied_transition_id, reason) ==
    [raised |-> FALSE, ok |-> ok, to_status |-> to_status,
     applied_transition_id |-> applied_transition_id, reason |-> reason]

\* http: the first request that fails, if any
transition_ticket(settings, transitions, target_status, http) ==
    LET selected == _select_transition(_parse_aliases(settings.jira_transition_aliases),
                                       transitions, target_status)
        failed == \/ http \in {"issue", "transitions"}
                  \/ http = "apply" /\ selected # None
    IN IF failed
       THEN (IF settings.strict THEN [raised |-> TRUE]
             ELSE TransitionResult(FALSE, target_status, None, Some(http)))
       ELSE IF selected = None
       THEN TransitionResult(FALSE, target_status, None, Some("No transition found"))
       ELSE TransitionResult(TRUE, target_status, Some(ValueOf(selected).id), None)

TransitionNames == {"Done", " DONE ", "Close Issue", "Start Work"}
StatusNames == {"Done", "Closed", "In Progress"}

\* the transitions Jira offers, their ids in the order of the list
Offers ==
    UNION {{[i \in 1..n |-> [id |-> i, name |-> names[i], to |-> tos[i]]] :
               names \in [1..n -> TransitionNames], tos \in [1..n -> StatusNames]} :
           n \in 0..MaxTransitions}

JiraConfigurations ==
    [backend : {"memory"}, github : {"mock"}, jira : {"api"},
     require_pr_approval : {TRUE}, strict : BOOLEAN,
     jira_transition_aliases : {"", "done:Close Issue|Resolve", "{\"Done\": [\"Closed\"]}"}]

InitJira ==
    /\ cfg \in JiraConfigurations
    /\ gate = [require_ci_pass |-> TRUE, require_codeowner_review |-> TRUE]
    /\ wpc = "transition_ticket"
    /\ wstate \in [target_status : {"Done"}, transitions : Offers]
    /\ Idle

TransitionTicket ==
    /\ wpc = "transition_ticket"
    /\ \E http \in {"ok", "issue", "transitions", "apply"} :
         result' = [result EXCEPT ![1] =
                       transition_ticket(cfg, wstate.transitions,
                                         wstate.target_status, http)]
    /\ wpc' = "transitioned"
    /\ UNCHANGED <<cfg, gate, heap, store, running, winitial, wstate, werr, apc, ref,
                   aloc, calls, ghMerged, napprove, nfaults, nreloads, persistedOk>>

\* selected = self._select_transition(transitions, target_status)
SelectTransition ==
    /\ wpc = "transition_ticket"
    /\ result' = [result EXCEPT ![1] =
                     _select_transition(_parse_aliases(cfg.jira_transition_aliases),
                                        wstate.transitions, wstate.target_status)]
    /\ wpc' = "selected"
    /\ UNCHANGED <<cfg, gate, heap, store, running, winitial, wstate, werr, apc, ref,
                   aloc, calls, ghMerged, napprove, nfaults, nreloads, persistedOk>>

NextJira == SelectTransition \/ TransitionTicket

SpecJira == InitJira /\ [][NextJira]_vars

----------------------------------------------------------------------------
(* Sentinel: evaluate_alert.  Scores are held in halves (the weights are
   3.0, 3.0, 2.0, 2.0 and a repeated signal adds 0.5), so 6 is 12 halves.
   wstate holds the payload as the signal hits found in it, its severity
   label and status, and the fallback hook with the result it returns. *)

\* occurrences of one signal in a payload
MaxHits == 5

Signals == {"error_rate_high", "health_flapping", "backlog_growth", "dependency_timeout"}

\* SIGNAL_WEIGHTS, in halves
SIGNAL_WEIGHTS(signal) ==
    IF signal \in {"error_rate_high", "health_flapping"} THEN 6 ELSE 4

Min(a, b) == IF a < b THEN a ELSE b
Max(a, b) == IF a > b THEN a ELSE b

\* the Counter: the signals that were hit at least once
Hit(signal_hits) == {signal \in Signals : signal_hits[signal] > 0}

\* the loop of _score_signals over the signals of the Counter
RECURSIVE ScoreOf(_, _)
ScoreOf(signal_hits, signals) ==
    IF signals = {} THEN 0
    ELSE LET signal == CHOOSE x \in signals : TRUE
         IN SIGNAL_WEIGHTS(signal)
              + Min(Max(signal_hits[signal] - 1, 0), 3)
              + ScoreOf(signal_hits, signals \ {signal})

_score_signals(signal_hits) == ScoreOf(signal_hits, Hit(signal_hits))

\* str.lower(), for the strings the payloads below hold
Lower(value) ==
    CASE value = "CRITICAL" -> "critical"
      [] value = "FIRING" -> "firing"
      [] value = "API" -> "api"
      [] value = "Tool 'query_logs' not found" -> "tool 'query_logs' not found"
      [] value = "Tool not found" -> "tool not found"
      [] value = "Tool 'query_logs' failed" -> "tool 'query_logs' failed"
      [] OTHER -> value

Severities == {"low", "medium", "high", "critical"}

SeverityOrder(severity) ==
    CASE severity = "low" -> 1
      [] severity = "medium" -> 2
      [] severity = "high" -> 3
      [] severity = "critical" -> 4

FromScore(score) ==
    IF score >= 12 THEN "critical"
    ELSE IF score >= 8 THEN "high"
    ELSE IF score >= 4 THEN "medium"
    ELSE "low"

_severity_from_score(score, fallback) ==
    LET from_score == FromScore(score)
    IN IF Lower(fallback) \notin Severities THEN from_score
       ELSE IF SeverityOrder(Lower(fallback)) > SeverityOrder(from_score)
       THEN Lower(fallback)
       ELSE from_score

\* dict.get(key, default)
GetOr(optional, default) == IF optional = None THEN default ELSE ValueOf(optional)

\* variant: the hook is asked whenever there is one
AmbiguousAlways(score, signal_hits) == TRUE

\* ambiguous = score < 2.5 or not signal_hits
Ambiguous(score, signal_hits) == score < 5 \/ Hit(signal_hits) = {}

\* "if fallback_result:" a hook that returns None or {} returned nothing
Truthy(fallback_result) ==
    /\ fallback_result # None
    /\ \E key \in DOMAIN ValueOf(fallback_result) : ValueOf(fallback_result)[key] # None

evaluate_alert(payload, llm_fallback) ==
    LET score == _score_signals(payload.signal_hits)
        ambiguous == Ambiguous(score, payload.signal_hits)
        severity == _severity_from_score(score, GetOr(payload.severity, "high"))
        is_actionable == score >= 4 \/ Lower(GetOr(payload.status, "firing")) = "firing"
        triage_reason == IF Hit(payload.signal_hits) # {}
                         THEN "Signals detected" ELSE "No deterministic incident signals"
        called == ambiguous /\ llm_fallback # None
        fallback_result == IF called THEN ValueOf(llm_fallback) ELSE None
    IN IF Truthy(fallback_result)
       THEN [severity |-> LET severity_raw == GetOr(ValueOf(fallback_result).severity,
                                                   severity)
                          IN IF severity_raw \in Severities THEN severity_raw ELSE "high",
             is_actionable |-> GetOr(ValueOf(fallback_result).is_actionable, is_actionable),
             triage_reason |-> GetOr(ValueOf(fallback_result).triage_reason, triage_reason),
             used_llm_fallback |-> TRUE,
             weighted_score |-> score, ambiguous |-> ambiguous, hook_calls |-> 1]
       ELSE [severity |-> severity,
             is_actionable |-> is_actionable,
             triage_reason |-> triage_reason,
             used_llm_fallback |-> FALSE,
             weighted_score |-> score, ambiguous |-> ambiguous,
             hook_calls |-> IF called THEN 1 ELSE 0]

SeverityLabels == {None, Some("low"), Some("high"), Some("CRITICAL"), Some("urgent")}

Payloads ==
    [signal_hits : [Signals -> 0..MaxHits],
     severity : SeverityLabels,
     status : {None, Some("resolved")}]

\* what a hook returns: nothing, or a dict with some of the keys
FallbackResults ==
    {None}
      \cup {Some(r) : r \in [severity : {None, Some("low"), Some("urgent")},
                            is_actionable : {None, Some(TRUE), Some(FALSE)},
                            triage_reason : {None, Some("Fallback model")}]}

\* no hook, or a hook and what it returns
Hooks == {None} \cup {Some(r) : r \in FallbackResults}

InitSentinel ==
    /\ cfg = [backend |-> "memory", github |-> "mock", jira |-> "mock",
              strict |-> FALSE, require_pr_approval |-> TRUE]
    /\ gate = [require_ci_pass |-> TRUE, require_codeowner_review |-> TRUE]
    /\ wpc = "sentinel"
    /\ wstate \in [payload : Payloads, llm_fallback : Hooks]
    /\ Idle

EvaluateAlert ==
    /\ wpc = "sentinel"
    /\ result' = [result EXCEPT ![1] = evaluate_alert(wstate.payload, wstate.llm_fallback)]
    /\ wpc' = "validated"
    /\ UNCHANGED <<cfg, gate, heap, store, running, winitial, wstate, werr, apc, ref,
                   aloc, calls, ghMerged, napprove, nfaults, nreloads, persistedOk>>

NextSentinel == EvaluateAlert

SpecSentinel == InitSentinel /\ [][NextSentinel]_vars

----------------------------------------------------------------------------
(* run_orchestrator, with the trace it leaves.  wstate holds the state dict
   being built: the incident fields, the integration trace, the thought
   signature (who built it) and the action of the remediation result, next
   to the error the runner raised.  The provider router is a seam of
   apply_direct_integrations: it takes whatever names the router returns. *)

_PLACEHOLDER_API_KEYS ==
    {"your_key", "your_api_key", "changeme", "replace_me", "replace-with-real-key"}

_RUNNER_POLICY == "adk_only"

NoTrace ==
    [execution_path |-> None, execution_reason |-> None, runner_policy |-> None,
     adk_error |-> None, fallback_used |-> None, fallback_path |-> None]

\* the empty dict
EmptyState ==
    [incident |-> Blank, integration_trace |-> NoTrace,
     thought_signature |-> None, action_taken |-> None]

_mock_fallback_allowed(settings) ==
    settings.allow_mock_fallback /\ ~settings.adk_strict_mode

\* variant: any non-empty key is usable
usable_api_key_present(settings) ==
    settings.gemini_api_key # None /\ StripLower(ValueOf(settings.gemini_api_key)) # ""

usable_api_key(settings) ==
    /\ settings.gemini_api_key # None
    /\ StripLower(ValueOf(settings.gemini_api_key)) # ""
    /\ StripLower(ValueOf(settings.gemini_api_key)) \notin _PLACEHOLDER_API_KEYS

FinalizeExecutionTrace(state, path, reason, adk_error) ==
    [state EXCEPT !.integration_trace =
        [@ EXCEPT !.fallback_used = IF @ = None THEN Some(FALSE) ELSE @,
                  !.execution_path = Some(path),
                  !.execution_reason =
                      Some(IF reason = "" THEN "adk_runtime_exception" ELSE reason),
                  !.runner_policy = Some(_RUNNER_POLICY),
                  !.adk_error = IF adk_error # "" THEN Some(adk_error) ELSE None]]

\* "tool '" in lowered, "not found" in lowered
HasToolQuote(lowered) ==
    lowered \in {"tool 'query_logs' not found", "tool 'query_logs' failed"}

HasNotFound(lowered) ==
    lowered \in {"tool 'query_logs' not found", "tool not found"}

\* variant: the message is searched as it is written
_is_missing_tool_error_cased(error_message) ==
    HasToolQuote(error_message) /\ HasNotFound(error_message)

_is_missing_tool_error(error_message) ==
    HasToolQuote(Lower(error_message)) /\ HasNotFound(Lower(error_message))

\* recommended: the action of the fallback signature built from the alert;
\* builds: whether building it went through
BuildAdkUnavailableState(settings, reason, error, recommended, builds) ==
    LET fallback == _mock_fallback_allowed(settings) /\ builds
        state == [EmptyState EXCEPT
                     !.thought_signature = IF fallback THEN Some("fallback") ELSE None,
                     !.integration_trace.fallback_used =
                         IF fallback THEN Some(TRUE) ELSE None,
                     !.integration_trace.fallback_path =
                         IF fallback THEN Some("deterministic") ELSE None,
                     !.action_taken = Some(IF fallback THEN recommended ELSE "fix_code"),
                     !.incident.remediation =
                         Failure(IF error # "" THEN error ELSE reason)]
    IN FinalizeExecutionTrace(state, "adk_unavailable", reason, error)

DiRaise(error, issued) ==
    [raised |-> TRUE, error |-> error, state |-> EmptyState, issued |-> issued]

DiReturn(state, issued) ==
    [raised |-> FALSE, error |-> "", state |-> state, issued |-> issued]

\* variant: only the ticket provider is checked
ApiModeViolatedJiraOnly(settings, resolved) ==
    IF Lower(settings.jira_integration_mode) = "api" /\ resolved.ticket # "jira_api"
    THEN "jira_api_requested_but_mock_provider_resolved"
    ELSE ""

\* the error of the API-mode check, "" when it passes
ApiModeViolated(settings, resolved) ==
    IF Lower(settings.jira_integration_mode) = "api" /\ resolved.ticket # "jira_api"
    THEN "jira_api_requested_but_mock_provider_resolved"
    ELSE IF Lower(settings.github_integration_mode) = "api"
              /\ resolved.code # "github_api"
    THEN "github_api_requested_but_mock_provider_resolved"
    ELSE ""

\* resolved: the names the router returned; outcome: what each provider call
\* does; recommended: the action of the signature
apply_direct_integrations(settings, state, resolved, outcome, recommended) ==
    LET traced == [state EXCEPT
                      !.integration_trace.fallback_used =
                          Some(resolved.ticket = "jira_mock" \/ resolved.code = "github_mock"),
                      !.thought_signature = IF @ = None THEN Some("fallback") ELSE @,
                      !.action_taken = Some(recommended)]
        create_ticket == <<Call("create_ticket", TRUE, W)>>
        ticketed == [traced EXCEPT !.incident = append_timeline_event(@, "ticket_created")]
        moved == [ticketed EXCEPT !.incident =
                    RecordTransition(
                      RecordTransition(
                        RecordTransition(@, "To Do", "ticket_moved_todo",
                                         outcome.transition = "ok"),
                        "In Progress", "ticket_moved_in_progress", TRUE),
                      "In Review", "ticket_moved_in_review", TRUE)]
        transitions == <<Call("transition_todo", outcome.transition = "ok", W),
                         Call("transition_in_progress", TRUE, W),
                         Call("transition_in_review", TRUE, W)>>
        created == [moved EXCEPT !.incident =
                      [append_timeline_event(@, "pr_created")
                          EXCEPT !.ticket_key = TRUE, !.remediation = CreatedPr]]
        create_pr == <<Call("create_pr", TRUE, W)>>
    IN IF ApiModeViolated(settings, resolved) # ""
       THEN DiRaise(ApiModeViolated(settings, resolved), << >>)
       ELSE IF outcome.ticket = "raise"
       THEN DiReturn([traced EXCEPT !.incident = TicketFailure(@)], << >>)
       ELSE IF outcome.transition = "raise"
       THEN DiRaise("transition failed", create_ticket)
       ELSE IF outcome.pr = "raise"
       THEN DiReturn([moved EXCEPT !.incident = PrFailure(@)],
                     create_ticket \o transitions)
       ELSE IF ~state.incident.repository
       THEN DiReturn([created EXCEPT !.incident = NoGateStatus(@)],
                     create_ticket \o transitions \o create_pr)
       ELSE IF outcome.gate.kind = "raise"
       THEN DiRaise("gate status failed", create_ticket \o transitions \o create_pr)
       ELSE DiReturn([created EXCEPT !.incident = GateApplied(@, outcome.gate)],
                     create_ticket \o transitions \o create_pr
                       \o <<Call("get_merge_gate_status", outcome.gate.ci_passed, W)>>)

\* what the providers the router resolved can do
IntegrationOutcomes(settings, resolved) ==
    [ticket : IF resolved.ticket = "jira_api" THEN {"ok", "raise"} ELSE {"ok"},
     transition : IF resolved.ticket = "jira_api"
                  THEN (IF settings.jira_transition_strict
                        THEN {"ok", "fail", "raise"} ELSE {"ok", "fail"})
                  ELSE {"ok"},
     pr : IF resolved.code = "github_api" THEN {"ok", "raise"} ELSE {"ok"},
     gate : IF resolved.code = "github_api"
            THEN {GateAnswer("ok", ci, rev) : ci \in BOOLEAN, rev \in BOOLEAN}
                   \cup {GateAnswer("raise", FALSE, FALSE)}
            ELSE {GateAnswer("ok", TRUE, TRUE)}]

\* the two calls of the router, ok when the name returned is the API provider's
Routed(resolved) ==
    <<Call("get_ticket_provider", resolved.ticket = "jira_api", W),
      Call("get_code_provider", resolved.code = "github_api", W)>>

Resolutions == [ticket : {"jira_api", "jira_mock"}, code : {"github_api", "github_mock"}]

ApiKeys == {None, Some(" "), Some(" ChangeMe "), Some("key")}

ErrorMessages ==
    {"Tool 'query_logs' not found", "Tool not found", "Tool 'query_logs' failed",
     "quota exceeded", ""}

Actions == {"fix_code", "config_change"}

RunnerSettings ==
    [use_mock_providers : BOOLEAN,
     gemini_api_key : ApiKeys,
     allow_mock_fallback : BOOLEAN,
     adk_strict_mode : BOOLEAN,
     jira_integration_mode : {"api", "API", "mock"},
     github_integration_mode : {"api", "mock"},
     jira_transition_strict : BOOLEAN,
     require_pr_approval : {TRUE}]

RunnerLocals(state, error, recommended, builds) ==
    [state |-> state, error |-> error, recommended |-> recommended, builds |-> builds]

InitRunner ==
    /\ cfg \in RunnerSettings
    /\ gate = [require_ci_pass |-> TRUE, require_codeowner_review |-> TRUE]
    /\ wpc = "run_orchestrator"
    /\ wstate \in {RunnerLocals(EmptyState, "", recommended, builds) :
                      recommended \in Actions, builds \in BOOLEAN}
    /\ Idle

RunnerUnchanged ==
    UNCHANGED <<cfg, gate, heap, store, running, winitial, werr, apc, ref, aloc,
                ghMerged, napprove, nfaults, nreloads, persistedOk>>

Unavailable(reason, error) ==
    BuildAdkUnavailableState(cfg, reason, error, wstate.recommended, wstate.builds)

\* the top of run_orchestrator, up to the instantiation of the agent
RunOrchestrator ==
    /\ wpc = "run_orchestrator"
    /\ IF cfg.use_mock_providers
       THEN /\ wstate' = [wstate EXCEPT
                            !.error = "USE_MOCK_PROVIDERS is true",
                            !.state = Unavailable("mock_flag_enabled",
                                                  "USE_MOCK_PROVIDERS is true")]
            /\ wpc' = "returned"
            /\ calls' = calls
       ELSE IF ~usable_api_key(cfg)
       THEN /\ wstate' = [wstate EXCEPT
                            !.error = "Gemini API key is missing or placeholder",
                            !.state = Unavailable("missing_or_placeholder_api_key",
                                                  "Gemini API key is missing or placeholder")]
            /\ wpc' = "returned"
            /\ calls' = calls
       ELSE /\ wstate' = wstate
            /\ wpc' = "agent"
            /\ calls' = Append(calls, Call("root_agent", TRUE, W))
    /\ result' = result
    /\ RunnerUnchanged

\* AdkRunner(agent_instance).run returns a state or raises
AdkRunnerRun ==
    /\ wpc = "agent"
    /\ \/ \E signature \in {None, Some("adk")}, repository \in BOOLEAN :
            /\ repository \/ signature # None
            /\ calls' = Append(calls, Call("AdkRunner.run", TRUE, W))
            /\ wstate' = [wstate EXCEPT
                            !.state = [EmptyState EXCEPT
                                          !.thought_signature = signature,
                                          !.incident.repository = repository]]
            /\ wpc' = "integrations"
       \/ \E error \in ErrorMessages :
            /\ calls' = Append(calls, Call("AdkRunner.run", FALSE, W))
            /\ IF _is_missing_tool_error(error)
               THEN /\ wstate' = [wstate EXCEPT
                                    !.error = error,
                                    !.state = [EmptyState EXCEPT
                                                  !.incident.repository = TRUE]]
                    /\ wpc' = "recovery"
               ELSE /\ wstate' = [wstate EXCEPT
                                    !.error = error,
                                    !.state = Unavailable("adk_runtime_exception", error)]
                    /\ wpc' = "returned"
    /\ result' = result
    /\ RunnerUnchanged

\* apply_direct_integrations on the state of the runner, then the end of
\* the try block or its except clause
ApplyDirectIntegrations ==
    /\ wpc = "integrations"
    /\ \E resolved \in Resolutions :
         \E outcome \in IntegrationOutcomes(cfg, resolved) :
           LET done == apply_direct_integrations(cfg, wstate.state, resolved, outcome,
                                                 wstate.recommended)
           IN /\ calls' = calls \o Routed(resolved) \o done.issued
                            \o <<Call("apply_direct_integrations", ~done.raised, W)>>
              /\ wstate' =
                   IF done.raised
                   THEN [wstate EXCEPT
                           !.error = done.error,
                           !.state = Unavailable("adk_runtime_exception", done.error)]
                   ELSE [wstate EXCEPT
                           !.state = FinalizeExecutionTrace(done.state, "adk",
                                                            "adk_success", "")]
    /\ wpc' = "returned"
    /\ result' = result
    /\ RunnerUnchanged

\* the except clause on a missing-tool error: apply_direct_integrations on {}
MissingToolRecovery ==
    /\ wpc = "recovery"
    /\ \E resolved \in Resolutions :
         \E outcome \in IntegrationOutcomes(cfg, resolved) :
           LET done == apply_direct_integrations(cfg, wstate.state, resolved, outcome,
                                                 wstate.recommended)
           IN /\ calls' = calls \o Routed(resolved) \o done.issued
                            \o <<Call("apply_direct_integrations", ~done.raised, W)>>
              /\ wstate' =
                   IF done.raised
                   THEN [wstate EXCEPT
                           !.state = Unavailable("adk_runtime_exception", wstate.error)]
                   ELSE [wstate EXCEPT
                           !.state = FinalizeExecutionTrace(
                                         done.state, "adk_recovered",
                                         "adk_missing_tool_recovered", wstate.error)]
    /\ wpc' = "returned"
    /\ result' = result
    /\ RunnerUnchanged

----------------------------------------------------------------------------
(* Triage and the direct integrations: the validated alert that
   apply_direct_integrations works with (the runner's, or the one
   evaluate_alert derives from the payload) and the provider calls that
   follow.  The function reads the alert's severity and service name for the
   ticket's text; it does not read is_actionable. *)

\* validated_model: state["validated_alert"] if it validates, else evaluate_alert
ValidatedModel(validated_alert, payload) ==
    IF validated_alert # None THEN ValueOf(validated_alert)
    ELSE [is_actionable |-> evaluate_alert(payload, None).is_actionable]

TriagePayloads ==
    [signal_hits : {[s \in Signals |-> 0], [s \in Signals |-> 1]},
     severity : {None},
     status : {None, Some("resolved")}]

RunnerAlerts == {None} \cup {Some([is_actionable |-> b]) : b \in BOOLEAN}

TriageSettings ==
    {settings \in RunnerSettings :
        /\ ~settings.use_mock_providers
        /\ settings.gemini_api_key = Some("key")
        /\ ~settings.allow_mock_fallback
        /\ ~settings.adk_strict_mode
        /\ settings.jira_integration_mode # "API"}

InitTriage ==
    /\ cfg \in TriageSettings
    /\ gate = [require_ci_pass |-> TRUE, require_codeowner_review |-> TRUE]
    /\ wpc = "triage"
    /\ wstate \in [validated_alert : RunnerAlerts, payload : TriagePayloads]
    /\ Idle

\* apply_direct_integrations on the runner's state (validated_alert set) or
\* on the empty state of the recovery
TriageIntegrate ==
    /\ wpc = "triage"
    /\ \E resolved \in Resolutions :
         \E outcome \in IntegrationOutcomes(cfg, resolved) :
           LET done == apply_direct_integrations(
                           cfg, [EmptyState EXCEPT !.incident.repository = TRUE],
                           resolved, outcome, "fix_code")
           IN /\ result' = [result EXCEPT
                              ![1] = [validated_alert |->
                                          ValidatedModel(wstate.validated_alert,
                                                         wstate.payload),
                                      raised |-> done.raised,
                                      incident |-> done.state.incident]]
              /\ calls' = calls \o Routed(resolved) \o done.issued
    /\ wpc' = "integrated"
    /\ UNCHANGED <<cfg, gate, heap, store, running, winitial, wstate, werr, apc, ref,
                   aloc, ghMerged, napprove, nfaults, nreloads, persistedOk>>

NextTriage == TriageIntegrate

SpecTriage == InitTriage /\ [][NextTriage]_vars

\* variant: {**state, **initial_state}
MergedTraceInitialFirst(state) ==
    [state.integration_trace EXCEPT !.execution_path = Some("pending"),
                                    !.execution_reason = Some("accepted_for_processing")]

\* the integration_trace of {**initial_state, **state} after the setdefaults
MergedTrace(state) ==
    [state.integration_trace EXCEPT
        !.fallback_used = IF @ = None THEN Some(FALSE) ELSE @,
        !.execution_path = IF @ = None THEN Some("adk_unavailable") ELSE @,
        !.execution_reason = IF @ = None THEN Some("missing_execution_reason") ELSE @,
        !.runner_policy = IF @ = None THEN Some("adk_only") ELSE @]

\* prometheus_webhook merges what run_orchestrator returned and saves it
WebhookPersist ==
    /\ wpc = "returned"
    /\ result' = [result EXCEPT
                    ![1] = [wstate.state EXCEPT
                              !.incident = MergedState(InitialState, @),
                              !.integration_trace = MergedTrace(wstate.state)]]
    /\ wpc' = "persisted"
    /\ UNCHANGED <<wstate, calls>>
    /\ RunnerUnchanged

NextRunner ==
    \/ RunOrchestrator
    \/ AdkRunnerRun
    \/ ApplyDirectIntegrations
    \/ MissingToolRecovery
    \/ WebhookPersist

SpecRunner == InitRunner /\ [][NextRunner]_vars

----------------------------------------------------------------------------
(* Session store: what save keeps of a state.  A value is a tagged record:
   an atom [kind, v] (str, int, null, an enum member with its value, a
   datetime) or a container [kind, items] (list, tuple, dict and pydantic
   model, the last two with items [key, val]).  result[1] is the stored
   record, result[2] what get returned. *)

\* values in a list, fields in a dict of the states saved
MaxItems == 2

Atom(kind, v) == [kind |-> kind, v |-> v]

Container(kind, items) == [kind |-> kind, items |-> items]

Item(key, val) == [key |-> key, val |-> val]

\* datetime.isoformat()
isoformat(instant) ==
    CASE instant = "t1" -> "2026-02-08T12:00:00+00:00"
      [] OTHER -> "2026-02-08T12:04:10.250000+00:00"

IsContainer(value) == value.kind \in {"list", "tuple", "dict", "model"}

IsMapping(value) == value.kind \in {"dict", "model"}

\* variant: the values inside a list or a tuple are kept as they are
RECURSIVE _jsonable_flat_lists(_)
_jsonable_flat_lists(value) ==
    CASE value.kind = "model" -> _jsonable_flat_lists(Container("dict", value.items))
      [] value.kind = "datetime" -> Atom("str", isoformat(value.v))
      [] value.kind = "dict" ->
            Container("dict", [i \in DOMAIN value.items |->
                                 Item(value.items[i].key,
                                      _jsonable_flat_lists(value.items[i].val))])
      [] value.kind \in {"list", "tuple"} -> Container("list", value.items)
      [] value.kind = "enum" -> Atom("str", value.v)
      [] OTHER -> value

RECURSIVE _jsonable(_)
_jsonable(value) ==
    CASE value.kind = "model" -> _jsonable(Container("dict", value.items))
      [] value.kind = "datetime" -> Atom("str", isoformat(value.v))
      [] value.kind = "dict" ->
            Container("dict", [i \in DOMAIN value.items |->
                                 Item(value.items[i].key, _jsonable(value.items[i].val))])
      [] value.kind \in {"list", "tuple"} ->
            Container("list", [i \in DOMAIN value.items |-> _jsonable(value.items[i])])
      [] value.kind = "enum" -> Atom("str", value.v)
      [] OTHER -> value

\* json.dumps raises TypeError on a datetime and on a model
RECURSIVE Serializable(_)
Serializable(value) ==
    CASE value.kind \in {"datetime", "model"} -> FALSE
      [] value.kind = "dict" ->
            \A i \in DOMAIN value.items : Serializable(value.items[i].val)
      [] value.kind \in {"list", "tuple"} ->
            \A i \in DOMAIN value.items : Serializable(value.items[i])
      [] OTHER -> TRUE

\* json.loads(json.dumps(value)) of a serializable value: a tuple comes back
\* as a list and a member of a str enum as its string
RECURSIVE JsonCopy(_)
JsonCopy(value) ==
    CASE value.kind = "dict" ->
            Container("dict", [i \in DOMAIN value.items |->
                                 Item(value.items[i].key, JsonCopy(value.items[i].val))])
      [] value.kind \in {"list", "tuple"} ->
            Container("list", [i \in DOMAIN value.items |-> JsonCopy(value.items[i])])
      [] value.kind = "enum" -> Atom("str", value.v)
      [] OTHER -> value

TypeError == Atom("raised", "TypeError")

\* what MemorySessionStore.save(session_id, state) stores
Saved(state) ==
    IF Serializable(_jsonable(state)) THEN JsonCopy(_jsonable(state)) ELSE TypeError

Atoms ==
    {Atom("str", "open"), Atom("int", "3"), Atom("null", ""),
     Atom("enum", "high"), Atom("datetime", "t1")}

\* a ValidatedAlert-like model
Models ==
    {Container("model", <<Item("severity", Atom("enum", "high")),
                          Item("triggered_at", Atom("datetime", "t2"))>>)}

SeqsUpTo(S, n) == UNION {[1..k -> S] : k \in 0..n}

Nested ==
    Atoms \cup Models
      \cup {Container(kind, items) :
              kind \in {"list", "tuple"}, items \in SeqsUpTo(Atoms \cup Models, MaxItems)}
      \cup {Container("dict", <<Item("status", atom)>>) : atom \in Atoms}

SessionStates ==
    {Container("dict", <<Item("alert", first), Item("trace", second)>>) :
        first \in Nested, second \in Nested}

InitStore ==
    /\ cfg = [backend |-> "memory", github |-> "mock", jira |-> "mock",
              strict |-> FALSE, require_pr_approval |-> TRUE]
    /\ gate = [require_ci_pass |-> TRUE, require_codeowner_review |-> TRUE]
    /\ wpc = "save"
    /\ wstate \in SessionStates
    /\ Idle

StoreUnchanged ==
    UNCHANGED <<cfg, gate, heap, store, running, winitial, wstate, werr, apc, ref,
                aloc, calls, ghMerged, napprove, nfaults, nreloads, persistedOk>>

\* await store.save(session_id, state)
StoreSave ==
    /\ wpc = "save"
    /\ result' = [result EXCEPT ![1] = Saved(wstate)]
    /\ wpc' = IF Saved(wstate) = TypeError THEN "save_raised" ELSE "saved"
    /\ StoreUnchanged

\* await store.get(session_id)
StoreGet ==
    /\ wpc = "saved"
    /\ result' = [result EXCEPT ![2] = result[1]]
    /\ wpc' = "loaded"
    /\ StoreUnchanged

\* await store.save(session_id, the record get returned)
StoreSaveAgain ==
    /\ wpc = "loaded"
    /\ result' = [result EXCEPT ![1] = Saved(result[2])]
    /\ wpc' = "saved_again"
    /\ StoreUnchanged

NextStore == StoreSave \/ StoreGet \/ StoreSaveAgain

SpecStore == InitStore /\ [][NextStore]_vars

----------------------------------------------------------------------------
(* Session store startup: get_session_store and
   ensure_session_store_initialized.  wstate holds the module's
   _session_store, the store the startup is initializing and the error it
   ended with; calls records every store get_session_store handed out. *)

\* calls of get_session_store by requests in one run
MaxGets == 3

\* _normalize_db_url
_normalize_db_url(url) ==
    IF url = "postgresql://db/resilix" THEN "postgresql+asyncpg://db/resilix" ELSE url

PostgresSessionStore(database_url) ==
    Some([kind |-> "postgres", url |-> database_url, id |-> 1])

MemorySessionStore(id) == Some([kind |-> "memory", url |-> "", id |-> id])

\* the store get_session_store returns and leaves in _session_store
get_session_store(settings, session_store) ==
    IF session_store # None THEN session_store
    ELSE IF settings.database_url \notin {None, Some("")}
    THEN PostgresSessionStore(_normalize_db_url(ValueOf(settings.database_url)))
    ELSE MemorySessionStore(1)

\* variant: any store that fails to start is replaced
FallsBackAlways(session_store) == TRUE

\* isinstance(store, PostgresSessionStore)
FallsBack(session_store) == ValueOf(session_store).kind = "postgres"

InitErrors == {"connection refused", "timeout"}

\* a call of init() on a store, and whether it returned
InitCall(session_store, ok) == [kind |-> ValueOf(session_store).kind, ok |-> ok]

DatabaseUrls ==
    {None, Some(""), Some("postgresql://db/resilix"), Some("postgresql+asyncpg://db/resilix")}

InitStartup ==
    /\ cfg \in [database_url : DatabaseUrls]
    /\ gate = [require_ci_pass |-> TRUE, require_codeowner_review |-> TRUE]
    /\ wpc = "startup"
    /\ wstate = [session_store |-> None, store |-> None, error |-> "",
                 fell_back |-> FALSE, inits |-> << >>]
    /\ Idle

StartupUnchanged ==
    UNCHANGED <<cfg, gate, heap, store, running, winitial, werr, apc, ref, aloc,
                result, ghMerged, napprove, nfaults, nreloads, persistedOk>>

\* a call of get_session_store outside the startup
GetSessionStore ==
    /\ Len(calls) < MaxGets
    /\ wpc \notin {"startup_failed"}
    /\ LET returned == get_session_store(cfg, wstate.session_store)
       IN /\ wstate' = [wstate EXCEPT !.session_store = returned]
          /\ calls' = Append(calls, Call("get_session_store", TRUE, ValueOf(returned)))
    /\ wpc' = wpc
    /\ StartupUnchanged

\* store = get_session_store()
EnsureGetStore ==
    /\ wpc = "startup"
    /\ LET returned == get_session_store(cfg, wstate.session_store)
       IN wstate' = [wstate EXCEPT !.session_store = returned, !.store = returned]
    /\ wpc' = "init"
    /\ calls' = calls
    /\ StartupUnchanged

\* await store.init(), and the except clause up to the fallback's init
EnsureInit ==
    /\ wpc = "init"
    /\ \/ /\ wstate' = [wstate EXCEPT !.inits = Append(@, InitCall(wstate.store, TRUE))]
          /\ wpc' = "started"
       \/ \E error \in InitErrors :
            IF FallsBack(wstate.store)
            THEN /\ wstate' = [wstate EXCEPT
                                 !.session_store = MemorySessionStore(2),
                                 !.error = error,
                                 !.fell_back = TRUE,
                                 !.inits = Append(@, InitCall(wstate.store, FALSE))]
                 /\ wpc' = "fallback_init"
            ELSE /\ wstate' = [wstate EXCEPT
                                 !.error = error,
                                 !.inits = Append(@, InitCall(wstate.store, FALSE))]
                 /\ wpc' = "startup_failed"
    /\ calls' = calls
    /\ StartupUnchanged

\* await _session_store.init() of the fallback store
EnsureFallbackInit ==
    /\ wpc = "fallback_init"
    /\ \/ /\ wstate' = [wstate EXCEPT
                            !.store = wstate.session_store,
                            !.inits = Append(@, InitCall(wstate.session_store, TRUE))]
          /\ wpc' = "started"
       \/ \E error \in InitErrors :
            /\ wstate' = [wstate EXCEPT
                            !.store = wstate.session_store,
                            !.error = error,
                            !.inits = Append(@, InitCall(wstate.session_store, FALSE))]
            /\ wpc' = "startup_failed"
    /\ calls' = calls
    /\ StartupUnchanged

NextStartup == GetSessionStore \/ EnsureGetStore \/ EnsureInit \/ EnsureFallbackInit

SpecStartup == InitStartup /\ [][NextStartup]_vars

----------------------------------------------------------------------------
(* GithubDirectProvider.create_remediation_pr against one repository of the
   code host.  The host is a set of branch refs, a list of pull requests and
   a count of commits per branch; one HTTP call of a drive may fail. *)

MaxDrives == 3

IncidentIds == {IncidentId, "INC-5E6F7A8B"}

\* f"fix/resilix-{incident_id.lower()}"
BranchName(incident_id) ==
    CASE incident_id = "INC-1a2b3c4d" -> "fix/resilix-inc-1a2b3c4d"
      [] incident_id = "INC-5E6F7A8B" -> "fix/resilix-inc-5e6f7a8b"

Branches == {BranchName(incident_id) : incident_id \in IncidentIds}

EmptyHost == [refs |-> {}, pulls |-> << >>, commits |-> [b \in Branches |-> 0]]

HttpCalls == {"get_base", "post_refs", "get_contents", "put_contents",
              "post_pulls", "get_pulls"}

\* the open pull requests of a head branch, oldest first
OpenPulls(host, head) ==
    SelectSeq(host.pulls, LAMBDA pr : pr.head = head /\ pr.state = "open")

\* POST /git/refs: 201 and the ref exists, or 422 for a ref that exists
PostRefs(host, branch, fault) ==
    IF fault = "post_refs" THEN [status |-> 500, host |-> host]
    ELSE IF branch \in host.refs THEN [status |-> 422, host |-> host]
    ELSE [status |-> 201, host |-> [host EXCEPT !.refs = @ \cup {branch}]]

\* POST /pulls: 422 while an open pull request of the head exists
PostPulls(host, head, fault) ==
    IF fault = "post_pulls" THEN [status |-> 500, host |-> host, pr_data |-> None]
    ELSE IF Len(OpenPulls(host, head)) > 0
         THEN [status |-> 422, host |-> host, pr_data |-> None]
    ELSE LET pr == [number |-> Len(host.pulls) + 1,
                    html_url |-> <<"pull", Len(host.pulls) + 1>>,
                    head |-> head, state |-> "open"]
         IN [status |-> 201, host |-> [host EXCEPT !.pulls = Append(@, pr)],
             pr_data |-> Some(pr)]

PrRaised(host) == [raised |-> TRUE, host |-> host, pr_number |-> None, pr_url |-> None]

\* variant: only a created ref counts, a 422 is raised
BranchAcceptedCreatedOnly(status) == status = 201

\* if branch_resp.status_code not in (201, 422): branch_resp.raise_for_status()
BranchAccepted(status) == status \in {201, 422}

create_remediation_pr(host, incident_id, fault) ==
    LET branch_name == BranchName(incident_id)
        branch_resp == PostRefs(host, branch_name, fault)
        branched == branch_resp.host
        committed == [branched EXCEPT !.commits[branch_name] = @ + 1]
        pr_resp == PostPulls(committed, branch_name, fault)
        prs == OpenPulls(pr_resp.host, branch_name)
    IN IF fault = "get_base" THEN PrRaised(host)
       ELSE IF ~BranchAccepted(branch_resp.status) THEN PrRaised(branched)
       ELSE IF fault = "get_contents" THEN PrRaised(branched)
       ELSE IF fault = "put_contents" THEN PrRaised(branched)
       ELSE IF pr_resp.status = 422
            THEN IF fault = "get_pulls" \/ Len(prs) = 0
                 THEN PrRaised(pr_resp.host)
                 ELSE [raised |-> FALSE, host |-> pr_resp.host,
                       pr_number |-> Some(prs[1].number),
                       pr_url |-> Some(prs[1].html_url)]
       ELSE IF pr_resp.status # 201 THEN PrRaised(pr_resp.host)
       ELSE [raised |-> FALSE, host |-> pr_resp.host,
             pr_number |-> Some(ValueOf(pr_resp.pr_data).number),
             pr_url |-> Some(ValueOf(pr_resp.pr_data).html_url)]

InitGithub ==
    /\ cfg = [github |-> "api"]
    /\ gate = [require_ci_pass |-> TRUE, require_codeowner_review |-> TRUE]
    /\ wpc = "github"
    /\ wstate = [host |-> EmptyHost, drives |-> 0]
    /\ Idle

GithubUnchanged ==
    UNCHANGED <<cfg, gate, heap, store, running, wpc, winitial, werr, apc, ref, aloc,
                calls, ghMerged, napprove, nfaults, nreloads, persistedOk>>

\* one call of create_remediation_pr; result[1] is what the caller got
CreateRemediationPr ==
    /\ wpc = "github"
    /\ wstate.drives < MaxDrives
    /\ \E incident_id \in IncidentIds, fault \in {"none"} \cup HttpCalls :
         LET done == create_remediation_pr(wstate.host, incident_id, fault)
         IN /\ wstate' = [host |-> done.host, drives |-> wstate.drives + 1]
            /\ result' = [result EXCEPT
                            ![1] = [incident_id |-> incident_id, fault |-> fault,
                                    raised |-> done.raised,
                                    pr_number |-> done.pr_number,
                                    pr_url |-> done.pr_url]]
    /\ GithubUnchanged

\* somebody closes or merges an open pull request on the code host
PullClosed ==
    /\ wpc = "github"
    /\ \E i \in DOMAIN wstate.host.pulls :
         /\ wstate.host.pulls[i].state = "open"
         /\ wstate' = [wstate EXCEPT !.host.pulls[i].state = "closed"]
    /\ result' = result
    /\ GithubUnchanged

NextGithub == CreateRemediationPr \/ PullClosed

SpecGithub == InitGithub /\ [][NextGithub]_vars

----------------------------------------------------------------------------
(* The thought signature apply_direct_integrations stores: the runner's
   signature if it has one, else the fallback built from the scored signals,
   with the alert's repository and target_file overrides applied. *)

SignalNames == {"health_flapping", "backlog_growth", "dependency_timeout",
                "error_rate_high"}

_infer_root_cause_category(signal_scores) ==
    IF signal_scores["health_flapping"] > 0 /\ signal_scores["backlog_growth"] > 0
    THEN <<"config_error", "config_change">>
    ELSE IF signal_scores["dependency_timeout"] > 0
    THEN <<"dependency_failure", "config_change">>
    ELSE IF signal_scores["error_rate_high"] > 0
    THEN <<"code_bug", "fix_code">>
    ELSE <<"resource_exhaustion", "scale_up">>

_artifact_path_for_category(category) ==
    CASE category = "config_error" -> "infra/service-config.yaml"
      [] category = "dependency_failure" -> "infra/dependencies.yaml"
      [] category = "code_bug" -> "src/app/handlers.py"
      [] OTHER -> "k8s/deployment.yaml"

_build_fallback_thought_signature(signal_scores) ==
    LET inferred == _infer_root_cause_category(signal_scores)
    IN [root_cause_category |-> inferred[1],
        recommended_action |-> inferred[2],
        target_file |-> _artifact_path_for_category(inferred[1])]

\* if override_target_file: signature_model.model_copy(update={"target_file": ...})
Overridden(signature_model, override_target_file) ==
    IF override_target_file \in {None, Some("")} THEN signature_model
    ELSE [signature_model EXCEPT !.target_file = ValueOf(override_target_file)]

\* the signature stored, the action handed to create_remediation_pr and
\* returned as action_taken, and the trace's action_guardrail entry (the
\* function writes none)
SignedState(alert) ==
    LET signature_model ==
            Overridden(IF alert.thought_signature = None
                       THEN _build_fallback_thought_signature(alert.signal_scores)
                       ELSE ValueOf(alert.thought_signature),
                       alert.target_file)
    IN [thought_signature |-> signature_model,
        action_taken |-> signature_model.recommended_action,
        action_guardrail |-> None]

RunnerSignatures ==
    {None} \cup
    {Some([root_cause_category |-> inferred[1], recommended_action |-> inferred[2],
           target_file |-> "src/app/handlers.py"]) :
        inferred \in {<<"code_bug", "fix_code">>, <<"config_error", "config_change">>,
                      <<"code_bug", "rollback">>}}

TargetFiles == {None, Some(""), Some("infra/dns/coredns-config.yaml"),
                Some("src/app/main.py")}

SignatureInputs ==
    [signal_scores : [SignalNames -> {0, 1}],
     thought_signature : RunnerSignatures,
     target_file : TargetFiles]

InitSignature ==
    /\ cfg \in SignatureInputs
    /\ gate = [require_ci_pass |-> TRUE, require_codeowner_review |-> TRUE]
    /\ wpc = "signature"
    /\ wstate = Blank
    /\ Idle

SignThought ==
    /\ wpc = "signature"
    /\ wpc' = "signed"
    /\ result' = [result EXCEPT ![1] = SignedState(cfg)]
    /\ UNCHANGED <<cfg, gate, heap, store, running, winitial, wstate, werr, apc, ref,
                   aloc, calls, ghMerged, napprove, nfaults, nreloads, persistedOk>>

NextSignature == SignThought

SpecSignature == InitSignature /\ [][NextSignature]_vars

----------------------------------------------------------------------------
(* Properties *)

Range(seq) == {seq[i] : i \in DOMAIN seq}

Occurrences(seq, x) == Cardinality({i \in DOMAIN seq : seq[i] = x})

Issued(op) == {i \in DOMAIN calls : calls[i].op = op}

\* request r takes a step
RStep(r) == apc'[r] # apc[r]

\* the 409 codes of evaluate_approval_request
PolicyCodes ==
    {"pr_not_created", "already_merged", "ci_not_passed",
     "approval_not_required", "already_approved"}

\* C1: in the integration stage the transitions to To Do and In Progress are
\* issued before the PR is created, and a transition to In Review (or a
\* ticket_moved_in_review event) only once the PR exists, never when its
\* creation failed.
C1_ReviewOnlyAfterPr ==
    /\ \A i \in Issued("create_pr") :
          \E j \in Issued("transition_todo"), k \in Issued("transition_in_progress") :
              j < k /\ k < i
    /\ \A i \in Issued("transition_in_review") :
          \E j \in Issued("create_pr") : j < i
    /\ "ticket_moved_in_review" \in Range(wstate.timeline)
          => "pr_created" \in Range(wstate.timeline)

\* C2: the transition to Done is issued only by an approve-merge request and
\* only after a merge_pr call has returned success.
C2_DoneOnlyAfterMerge ==
    \A i \in Issued("transition_done") :
        /\ calls[i].by \in Reqs
        /\ \E j \in Issued("merge_pr") : j < i /\ calls[j].ok

C3_Case(s) ==
    /\ _has_pr(s.remediation)
    /\ ~_is_merged(s.remediation)
    /\ s.ci_status = "ci_passed"
    /\ s.policy.require_codeowner_review
    /\ s.codeowner_review_status # "approved"

\* C3: evaluate_approval_request answers codeowner_review_required when the
\* PR exists, is not merged, CI has passed, the policy requires code-owner
\* review and codeowner_review_status is not approved.
C3_CodeownerReviewRequired ==
    (wpc = "policy_decided" /\ C3_Case(wstate))
        => result[1] = "codeowner_review_required"

C4_Case(s) ==
    /\ ~s.policy.require_ci_pass
    /\ ~s.policy.require_codeowner_review
    /\ _has_pr(s.remediation)
    /\ ~_is_merged(s.remediation)
    /\ s.ci_status = "pending"
    /\ s.codeowner_review_status = "pending"
    /\ s.approval.required
    /\ ~s.approval.approved

\* C4: a request made while require_ci_pass and require_codeowner_review are
\* both off is accepted by the policy for an incident that has an unmerged
\* PR, ci_status pending and codeowner_review_status pending.
C4_RuntimeGateSettingsApply ==
    [][\A r \in Reqs :
          (apc[r] = "evaluate" /\ RStep(r) /\ C4_Case(StateOf(r)))
              => apc'[r] = "merge"]_vars

C5_Failing(s) ==
    <<~(s.remediation.present /\ (s.remediation.pr_number \/ s.remediation.pr_url)),
      s.remediation.present /\ s.remediation.pr_merged,
      s.ci_status # "ci_passed",
      ~s.approval.required,
      s.approval.approved>>

C5_Codes ==
    <<"pr_not_created", "already_merged", "ci_not_passed",
      "approval_not_required", "already_approved">>

C5_Expected(s) ==
    IF \E i \in DOMAIN C5_Codes : C5_Failing(s)[i]
    THEN C5_Codes[CHOOSE i \in DOMAIN C5_Codes :
                      /\ C5_Failing(s)[i]
                      /\ \A j \in DOMAIN C5_Codes : j < i => ~C5_Failing(s)[j]]
    ELSE "eligible"

C6_ApprovalIdempotent ==
    [][\A r \in Reqs :
          (aloc[r].after_success /\ RStep(r))
              => /\ apc'[r] \in {"evaluate", "idle"}
                 /\ apc[r] = "evaluate"
                       => result'[r] \in {"already_approved", "already_merged"}
                 /\ calls' = calls]_vars

C6_Witness ==
    /\ persistedOk
    /\ napprove = MaxApprovals
    /\ \E r \in Reqs : result[r] = "already_merged"
    /\ Cardinality(Issued("merge_pr") \cup Issued("merge_skipped")) = 1

\* C7: with two approve-merge requests on the incident, merge_pr succeeds at
\* most once and the stored timeline holds at most one pr_merged and at
\* most one incident_resolved event.
C7_AtMostOneMerge ==
    /\ Cardinality({i \in Issued("merge_pr") : calls[i].ok}) <= 1
    /\ store # 0 => /\ Occurrences(heap[store].timeline, "pr_merged") <= 1
                    /\ Occurrences(heap[store].timeline, "incident_resolved") <= 1

\* C8: a request the policy rejects leaves the stored state as it was and
\* makes no merge call and no ticket transition.
C8_RejectionHasNoEffect ==
    [][\A r \in Reqs :
          (RStep(r) /\ apc'[r] = "idle" /\ result'[r] \in PolicyCodes)
              => /\ ~aloc[r].touched
                 /\ store' = store
                 /\ heap'[store'] = heap[store]
                 /\ calls' = calls]_vars

\* the marks an approval leaves on a state
Marked(s) ==
    \/ s.approval.approved
    \/ s.remediation.pr_merged
    \/ s.resolved_at
    \/ {"pr_merged", "incident_resolved"} \cap Range(s.timeline) # {}

MergeMade(r) ==
    \E i \in Issued("merge_pr") \cup Issued("merge_skipped") : calls[i].by = r

\* C9: a request whose merge_pr call answered false ends in merge_failed
\* with nothing saved and no transition issued; no state, stored or held by
\* a request, carries approved, pr_merged, resolved_at, a pr_merged or an
\* incident_resolved event before some merge was made, and a transition to
\* Done is issued only by a request whose merge was made.
C9_MergeFailureLeavesUnresolved ==
    /\ [](/\ (store # 0 /\ Marked(heap[store])) => \E r \in Reqs : MergeMade(r)
          /\ \A r \in Reqs :
                (ref[r] # 0 /\ Marked(StateOf(r))) => \E q \in Reqs : MergeMade(q)
          /\ \A i \in Issued("transition_done") :
                \E j \in Issued("merge_pr") \cup Issued("merge_skipped") :
                    j < i /\ calls[j].by = calls[i].by)
    /\ [][\A r \in Reqs :
             (RStep(r) /\ result'[r] = "merge_failed")
                 => /\ apc[r] = "merge"
                    /\ store' = store
                    /\ heap'[store'] = heap[store]
                    /\ calls' = calls]_vars

C9_Witness ==
    /\ store # 0
    /\ ~Marked(heap[store])
    /\ \E r \in Reqs : result[r] = "merge_failed"

\* C10: once the stored state has pr_merged set, every later stored state
\* has it set.
C10_MergedMonotonic ==
    [][(store # 0 /\ heap[store].remediation.pr_merged)
          => heap'[store'].remediation.pr_merged]_vars

C10_Witness ==
    /\ store # 0
    /\ heap[store].remediation.pr_merged
    /\ \A r \in Reqs : result[r] = "ok"

MockMode == cfg.github = "mock" /\ cfg.jira = "mock" /\ cfg.require_pr_approval

AwaitingApproval == <<"awaiting_approval", "pending", "ci_passed">>

Resolved(s) ==
    /\ derive_status_fields(s) = <<"resolved", "approved", "merged">>
    /\ s.resolved_at
    /\ "ticket_moved_done" \in Range(s.timeline)

\* a webhook request has finished and no approve-merge has been issued
WebhookEnded == wpc = "done" /\ napprove = 0 /\ store # 0

Positions(seq, x) == {i \in DOMAIN seq : seq[i] = x}

TimelineOrdered(timeline) ==
    /\ \E i \in Positions(timeline, "incident_created"),
          j \in Positions(timeline, "pr_created"),
          k \in Positions(timeline, "pr_merged"),
          l \in Positions(timeline, "incident_resolved") :
            i < j /\ j < k /\ k < l
    /\ \A d \in Positions(timeline, "ticket_moved_done") :
          \E k \in Positions(timeline, "pr_merged") : k <= d

\* C12: with no approve-merge request in flight, a stored incident whose
\* derived status is resolved has a timeline with incident_created before
\* pr_created before pr_merged before incident_resolved, and every
\* ticket_moved_done event at or after a pr_merged event.
C12_ResolvedTimelineOrdered ==
    (/\ store # 0
     /\ \A r \in Reqs : apc[r] = "idle"
     /\ derive_status_fields(heap[store])[1] = "resolved")
        => TimelineOrdered(heap[store].timeline)

\* C13: whenever derive_status_fields answers pr_status merged it answers
\* status resolved and approval_status approved or not_required.
C13_MergedIsResolved ==
    (wpc = "status_derived" /\ result[1][3] = "merged")
        => /\ result[1][1] = "resolved"
           /\ result[1][2] \in {"approved", "not_required"}

C13_Witness ==
    /\ wpc = "status_derived"
    /\ result[1][3] = "merged"
    /\ wstate.approval.required
    /\ ~wstate.approval.approved
    /\ wstate.ci_status = "pending"

C14_Table(s) ==
    LET has_pr == s.remediation.present
                    /\ (s.remediation.pr_number \/ s.remediation.pr_url)
    IN IF ~has_pr THEN <<"processing", "not_created">>
       ELSE IF s.remediation.pr_merged THEN <<"resolved", "merged">>
       ELSE IF s.ci_status = "ci_passed"
       THEN (IF s.approval.required /\ ~s.approval.approved
             THEN <<"awaiting_approval", "ci_passed">>
             ELSE <<"merging", "ci_passed">>)
       ELSE <<"processing", "pending_ci">>

\* C14: derive_status_fields answers the status and pr_status of the decision
\* table: processing / not_created without a PR, resolved / merged for a
\* merged PR, awaiting_approval / ci_passed when CI passed and a required
\* approval is not given, merging / ci_passed when CI passed otherwise,
\* processing / pending_ci when CI is pending; status resolved only for a
\* merged PR.
C14_DecisionTable ==
    wpc = "status_derived"
        => /\ <<result[1][1], result[1][3]>> = C14_Table(wstate)
           /\ result[1][1] = "resolved"
                 => /\ _has_pr(wstate.remediation)
                    /\ wstate.remediation.pr_merged

MttrUndefined(s) ==
    s.resolved_at = None \/ ValueOf(s.resolved_at) < s.created_at

MttrExact(s) == ValueOf(s.resolved_at) - s.created_at

\* C15 as stated: compute_mttr returns None when resolved_at is missing or
\* earlier than created_at, and otherwise exactly resolved_at - created_at,
\* which is not negative.
C15_MttrIsDifference ==
    wpc = "mttr_computed"
        => IF MttrUndefined(wstate) THEN result[1] = None
           ELSE /\ result[1] # None
                /\ ValueOf(result[1]) >= 0
                /\ ValueOf(result[1]) * 1000 = MttrExact(wstate)

\* C15: compute_mttr returns None when resolved_at is missing or earlier
\* than created_at, and otherwise resolved_at - created_at rounded to the
\* nearest millisecond, which is not negative.
C15_MttrNonNegative ==
    wpc = "mttr_computed"
        => IF MttrUndefined(wstate) THEN result[1] = None
           ELSE /\ result[1] # None
                /\ ValueOf(result[1]) >= 0
                /\ ValueOf(result[1]) * 1000 - MttrExact(wstate) <= 500
                /\ MttrExact(wstate) - ValueOf(result[1]) * 1000 <= 500

C15_Witness ==
    /\ wpc = "mttr_computed"
    /\ ~MttrUndefined(wstate)
    /\ ValueOf(result[1]) * 1000 > MttrExact(wstate)

ProviderModes(settings) == [jira |-> settings.jira, github |-> settings.github]

\* a provider in api mode is not ready, or its mode is neither api nor mock
Unready(settings) ==
    \E provider \in {"jira", "github"} :
        LET mode == StripLower(ProviderModes(settings)[provider])
        IN \/ mode = "api" /\ ~get_provider_readiness(settings)[provider].ready
           \/ mode \notin {"api", "mock"}

\* C16: when a provider in api mode is not ready, or a provider's mode is
\* neither api nor mock, the webhook request is answered 503
\* provider_not_ready (400 if its payload is malformed), no initial state is
\* built, and the store is never written: it holds what it held before.
C16_UnreadyWebhookRejected ==
    /\ [](Unready(cfg) => /\ store = 0
                          /\ heap = [o \in Objs |-> Blank]
                          /\ wpc \notin {"save_initial", "adk"})
    /\ [][(Unready(cfg) /\ wpc = "request" /\ wpc' \in {"rejected", "save_initial"})
             => /\ wpc' = "rejected"
                /\ result'[1].status_code \in {400, 503}
                /\ result'[1].status_code = 503
                      => result'[1].detail.code = "provider_not_ready"
                /\ UNCHANGED <<store, heap, winitial, calls>>]_vars

C16_Witness ==
    /\ wpc = "rejected"
    /\ result[1].status_code = 503
    /\ result[1].detail.provider = "github"
    /\ result[1].detail.reason = "missing_or_invalid_config"
    /\ StripLower(cfg.jira) = "api"
    /\ store = 0

JiraCredentials == {"JIRA_URL", "JIRA_USERNAME", "JIRA_API_TOKEN", "JIRA_PROJECT_KEY"}
GithubCredentials == {"GITHUB_TOKEN", "GITHUB_OWNER"}

Unusable(settings, fields) == {f \in fields : ~_usable(SettingOf(settings, f))}

C17_Provider(called, provider, mode_value, credentials) ==
    wpc = called
        => /\ (StripLower(mode_value) = "api" /\ Unusable(cfg, credentials) # {})
                 => /\ result[1].raised
                    /\ result[1].provider = provider
                    /\ result[1].reason_code = "missing_or_invalid_config"
                    /\ Range(result[1].missing_or_invalid_fields)
                           = Unusable(cfg, credentials)
           /\ (~result[1].raised
                 /\ result[1].provider \in {"MockTicketProvider", "MockCodeProvider"})
                 => StripLower(mode_value) = "mock"

\* C17: in api mode with a required credential missing or a placeholder,
\* get_ticket_provider and get_code_provider raise ProviderConfigError with
\* reason missing_or_invalid_config and exactly the unusable fields, and
\* return no provider; they return a mock provider only in mock mode.
C17_NoMockFallback ==
    /\ C17_Provider("ticket_provider", "jira", cfg.jira, JiraCredentials)
    /\ C17_Provider("code_provider", "github", cfg.github, GithubCredentials)

C17_Witness ==
    /\ wpc = "code_provider"
    /\ StripLower(cfg.github) = "api"
    /\ result[1].raised
    /\ result[1].missing_or_invalid_fields = <<"GITHUB_TOKEN", "GITHUB_OWNER">>

C18_Taxonomy(provider, mode_value, credentials, r) ==
    LET mode == StripLower(mode_value)
    IN CASE mode = "mock" ->
              /\ r.ready
              /\ r.resolved_backend = provider \o "_mock"
              /\ r.reason = "mock_mode"
         [] mode = "api" /\ Unusable(cfg, credentials) = {} ->
              /\ r.ready
              /\ r.resolved_backend = provider \o "_api"
              /\ r.reason = "ok"
         [] mode = "api" /\ Unusable(cfg, credentials) # {} ->
              /\ ~r.ready
              /\ r.resolved_backend = "unavailable"
              /\ r.reason = "missing_or_invalid_config"
              /\ Range(r.missing_fields) = Unusable(cfg, credentials)
         [] OTHER ->
              /\ ~r.ready
              /\ r.reason = "invalid_mode"

\* C18: what get_provider_readiness reports is decided by the configuration
\* alone: per provider, mock mode gives ready, <provider>_mock, mock_mode;
\* api mode with all credentials usable gives ready, <provider>_api, ok; api
\* mode with an unusable credential gives not ready, unavailable,
\* missing_or_invalid_config and the unusable fields; any other mode gives
\* not ready, invalid_mode.
C18_ReadinessTaxonomy ==
    wpc = "readiness"
        => /\ DOMAIN result[1] = {"jira", "github"}
           /\ C18_Taxonomy("jira", cfg.jira, JiraCredentials, result[1].jira)
           /\ C18_Taxonomy("github", cfg.github, GithubCredentials, result[1].github)

C18_Witness ==
    /\ wpc = "readiness"
    /\ result[1].jira.reason = "invalid_mode"
    /\ result[1].github.reason = "missing_or_invalid_config"
    /\ result[1].github.missing_fields = <<"GITHUB_OWNER">>

\* the target status and its configured aliases, lower-cased
Targets ==
    LET aliases == _parse_aliases(cfg.jira_transition_aliases)
        key == StripLower(wstate.target_status)
    IN {key} \cup (IF key \in DOMAIN aliases THEN aliases[key] ELSE {})

NameMatches ==
    {i \in DOMAIN wstate.transitions :
        StripLower(wstate.transitions[i].name) \in Targets}

DestinationMatches ==
    {i \in DOMAIN wstate.transitions :
        StripLower(wstate.transitions[i].to) \in Targets}

Selected(matches) ==
    /\ result[1] # None
    /\ ValueOf(result[1]).id \in matches

\* C19: _select_transition chooses a transition whose name is the target
\* status or one of its aliases, compared case-insensitively, whenever there
\* is one, wherever in the list a transition matching by destination stands;
\* it chooses a transition whose destination matches only when no name
\* matches, and chooses nothing when neither matches.
C19_NameBeforeDestination ==
    wpc = "selected"
        => IF NameMatches # {} THEN Selected(NameMatches)
           ELSE IF DestinationMatches # {} THEN Selected(DestinationMatches)
           ELSE result[1] = None

C19_Witness ==
    /\ wpc = "selected"
    /\ Len(wstate.transitions) = MaxTransitions
    /\ 1 \in DestinationMatches \ NameMatches
    /\ wstate.transitions[MaxTransitions].name = "Close Issue"
    /\ NameMatches = {MaxTransitions}
    /\ Selected({MaxTransitions})

NoMatch == NameMatches = {} /\ DestinationMatches = {}

\* C20: when no transition offered matches the target status,
\* transition_ticket raises in strict mode, and otherwise returns a failure
\* record (ok false, no applied_transition_id, a reason) and applies nothing.
C20_NoMatchStrictRaises ==
    (wpc = "transitioned" /\ NoMatch)
        => IF cfg.strict THEN result[1].raised
           ELSE /\ ~result[1].raised
                /\ ~result[1].ok
                /\ result[1].applied_transition_id = None
                /\ result[1].reason # None

\* the level of a score given in units: 6, 4 and 2 are 12, 8 and 4 halves
LevelOf(score) ==
    IF score >= 12 THEN "critical"
    ELSE IF score >= 8 THEN "high"
    ELSE IF score >= 4 THEN "medium"
    ELSE "low"

Rank(severity) ==
    CASE severity = "low" -> 1
      [] severity = "medium" -> 2
      [] severity = "high" -> 3
      [] OTHER -> 4

\* the severity the alert's labels supply, if it names one
LabelSeverity(payload) ==
    IF payload.severity # None /\ Lower(ValueOf(payload.severity)) \in Severities
    THEN Some(Lower(ValueOf(payload.severity)))
    ELSE None

C21_Expected(payload, score) ==
    LET label == LabelSeverity(payload)
    IN IF label # None /\ Rank(ValueOf(label)) > Rank(LevelOf(score))
       THEN ValueOf(label)
       ELSE LevelOf(score)

\* C21: when the fallback hook is not used, the severity of the validated
\* alert is the level of the weighted score (critical from 6, high from 4,
\* medium from 2, else low), replaced by the severity label only when the
\* label is strictly more severe; without a severity label it is the level
\* of the score.
C21_SeverityFromScore ==
    (wpc = "validated" /\ ~result[1].used_llm_fallback)
        => result[1].severity = C21_Expected(wstate.payload, result[1].weighted_score)


\* what evaluate_alert gives without a hook
Deterministic == evaluate_alert(wstate.payload, None)

HookProvided == wstate.llm_fallback # None

\* what the hook returned, when it returned something
HookResult == ValueOf(ValueOf(wstate.llm_fallback))

HookReturned == HookProvided /\ Truthy(ValueOf(wstate.llm_fallback))

HookInvokedWhenAmbiguous ==
    result[1].hook_calls = 1
        <=> (HookProvided /\ (result[1].weighted_score < 5
                                \/ \A signal \in Signals :
                                       wstate.payload.signal_hits[signal] = 0))

Given(key) == HookResult[key] # None

KeptOrTaken(key) ==
    result[1][key] = IF Given(key) THEN ValueOf(HookResult[key]) ELSE Deterministic[key]

DeterministicKept ==
    /\ ~result[1].used_llm_fallback
    /\ \A key \in {"severity", "is_actionable", "triage_reason"} :
           result[1][key] = Deterministic[key]

\* C22, as stated: the hook is invoked exactly when one is provided and the
\* score is below 2.5 or no signal fired; when it is invoked and returns a
\* result, the validated alert has the severity, is_actionable and
\* triage_reason the hook gave and used_llm_fallback is true; otherwise
\* used_llm_fallback is false and the deterministic values are kept.
C22_HookValuesTaken ==
    wpc = "validated" =>
        /\ HookInvokedWhenAmbiguous
        /\ IF result[1].hook_calls = 1 /\ HookReturned
           THEN /\ result[1].used_llm_fallback
                /\ \A key \in {"severity", "is_actionable", "triage_reason"} :
                       KeptOrTaken(key)
           ELSE DeterministicKept

\* C22, amended: as above, except that a severity of the hook that names
\* none of the four levels makes the alert high.
C22_HookValuesTakenOrHigh ==
    wpc = "validated" =>
        /\ HookInvokedWhenAmbiguous
        /\ IF result[1].hook_calls = 1 /\ HookReturned
           THEN /\ result[1].used_llm_fallback
                /\ \A key \in {"is_actionable", "triage_reason"} : KeptOrTaken(key)
                /\ IF Given("severity") /\ ValueOf(HookResult.severity) \notin Severities
                   THEN result[1].severity = "high"
                   ELSE KeptOrTaken("severity")
           ELSE DeterministicKept

C22_Witness ==
    /\ wpc = "validated"
    /\ result[1].hook_calls = 1
    /\ result[1].used_llm_fallback
    /\ result[1].weighted_score = 4
    /\ Deterministic.severity = "high"
    /\ result[1].severity = "low"
    /\ Deterministic.is_actionable /\ ~result[1].is_actionable
    /\ result[1].triage_reason = "Fallback model"


\* the integration_trace the webhook persisted
PersistedTrace == result[1].integration_trace

ExecutionPaths == {"adk", "adk_recovered", "adk_unavailable", "mock_runner", "direct_integrations"}

TraceFilled ==
    /\ PersistedTrace.execution_path # None
    /\ ValueOf(PersistedTrace.execution_path) \in ExecutionPaths
    /\ PersistedTrace.execution_reason \notin {None, Some("")}
    /\ PersistedTrace.runner_policy \notin {None, Some("")}

\* AdkRunner.run was called and raised
ReasoningRunnerFailed ==
    \E i \in DOMAIN calls : calls[i].op = "AdkRunner.run" /\ ~calls[i].ok

\* run_orchestrator returned before it made the agent
RejectedAtTop == \A i \in DOMAIN calls : calls[i].op # "root_agent"

MissingToolMessages == {"Tool 'query_logs' not found"}

RunnerMissedTool == ReasoningRunnerFailed /\ wstate.error \in MissingToolMessages

Recovered ==
    /\ PersistedTrace.execution_path = Some("adk_recovered")
    /\ PersistedTrace.execution_reason = Some("adk_missing_tool_recovered")
    /\ PersistedTrace.adk_error = Some(wstate.error)

IssuedOk(op) == \E i \in DOMAIN calls : calls[i].op = op /\ calls[i].ok

\* the ticket was created and moved and the PR was opened
ProvidersWorked ==
    \A op \in {"create_ticket", "transition_todo", "transition_in_progress",
               "transition_in_review", "create_pr"} : IssuedOk(op)

Approvable(incident) ==
    /\ _has_pr(incident.remediation)
    /\ incident.ci_status = "ci_passed"
    /\ evaluate_approval_request(incident) = "eligible"

\* after a missing-tool error the integrations start from the empty state,
\* and when they return the trace says adk_recovered
RecoveryRuns ==
    /\ (wpc = "recovery") =>
          (RunnerMissedTool /\ wstate.state.thought_signature = None
             /\ wstate.state.integration_trace = NoTrace
             /\ wstate.state.incident.remediation = NoRemediation)
    /\ (wpc \in {"returned", "persisted"} /\ RunnerMissedTool) =>
          /\ \E i \in DOMAIN calls : calls[i].op = "apply_direct_integrations"
          /\ wstate.state.integration_trace.execution_path =
                IF IssuedOk("apply_direct_integrations")
                THEN Some("adk_recovered") ELSE Some("adk_unavailable")
    /\ (wpc = "persisted" /\ PersistedTrace.execution_path = Some("adk_recovered")) =>
          (RunnerMissedTool /\ Recovered)

RunnerFailedForGood ==
    /\ ReasoningRunnerFailed
    /\ wstate.error \notin MissingToolMessages \/ ~IssuedOk("apply_direct_integrations")

\* C25: when the reasoning runner fails with an error that is not a
\* missing-tool error, or the recovery fails, the persisted state is
\* adk_unavailable, carries the fallback thought signature and the action of
\* that signature, and has no PR.
C25_UnavailableCarriesFallback ==
    (wpc = "persisted" /\ RunnerFailedForGood) =>
        /\ PersistedTrace.execution_path = Some("adk_unavailable")
        /\ result[1].thought_signature = Some("fallback")
        /\ result[1].action_taken = Some(wstate.recommended)
        /\ ~_has_pr(result[1].incident.remediation)

KeyMissingOrPlaceholder == cfg.gemini_api_key \in {None, Some(" "), Some(" ChangeMe ")}

ProviderOps ==
    {"create_ticket", "transition_todo", "transition_in_progress",
     "transition_in_review", "create_pr", "get_merge_gate_status"}

NoProviderCall == \A i \in DOMAIN calls : calls[i].op \notin ProviderOps

ApiRequested(mode) == mode \in {"api", "API"}

\* the router was asked and gave a provider that is not the API one
ResolvedOther(op) == \E i \in DOMAIN calls : calls[i].op = op /\ ~calls[i].ok

C29_StoredChangesOnlyBySave ==
    [][(store # 0 /\ store' = store) => heap'[store] = heap[store]]_vars


\* the leaves of a value with the keys and positions that lead to them
RECURSIVE Leaves(_, _)
Leaves(value, path) ==
    IF ~IsContainer(value) THEN {<<path, value>>}
    ELSE IF value.items = << >>
    THEN {<<path, Atom("empty", IF IsMapping(value) THEN "mapping" ELSE "sequence")>>}
    ELSE UNION {IF IsMapping(value)
                THEN Leaves(value.items[i].val, Append(path, value.items[i].key))
                ELSE Leaves(value.items[i], Append(path, ToString(i)))
                : i \in DOMAIN value.items}

\* an enum member as its string value, a timestamp as its ISO string
AsStored(leaf) ==
    CASE leaf.kind = "enum" -> Atom("str", leaf.v)
      [] leaf.kind = "datetime" /\ leaf.v = "t1" -> Atom("str", "2026-02-08T12:00:00+00:00")
      [] leaf.kind = "datetime" /\ leaf.v = "t2" ->
            Atom("str", "2026-02-08T12:04:10.250000+00:00")
      [] OTHER -> leaf

\* only JSON values are left: strings, numbers, null, lists and dicts
RECURSIVE PlainJson(_)
PlainJson(value) ==
    CASE value.kind \in {"str", "int", "null"} -> TRUE
      [] value.kind = "dict" -> \A i \in DOMAIN value.items : PlainJson(value.items[i].val)
      [] value.kind = "list" -> \A i \in DOMAIN value.items : PlainJson(value.items[i])
      [] OTHER -> FALSE

\* C28: get after save returns a record with the keys and positions of the
\* saved state, every enum member replaced by its string value and every
\* timestamp by its ISO string; saving the returned record again stores the
\* same value.
C28_RoundTrip ==
    /\ wpc # "save_raised"
    /\ wpc \in {"loaded", "saved_again"} =>
          /\ PlainJson(result[2])
          /\ Leaves(result[2], << >>)
                = {<<leaf[1], AsStored(leaf[2])>> : leaf \in Leaves(wstate, << >>)}
    /\ wpc = "saved_again" => result[1] = result[2]

C28_Witness ==
    /\ wpc = "saved_again"
    /\ wstate.items[1].val \in Models
    /\ wstate.items[2].val.kind = "tuple"
    /\ Len(wstate.items[2].val.items) = 2
    /\ wstate.items[2].val.items[1] \in Models
    /\ wstate.items[2].val.items[2] = Atom("enum", "high")
    /\ result[1] = result[2]
    /\ result[2].items[2].val.items[2] = Atom("str", "high")


\* the store the fallback makes
FallbackStore == MemorySessionStore(2)

ConfiguredRelational == cfg.database_url \notin {None, Some("")}

\* C30: when init() of the relational store fails, an in-memory store takes
\* its place in _session_store, every later get_session_store returns that
\* store, and the startup goes on once that store is initialized; when
\* init() of the configured in-memory store fails, the startup fails with
\* the error and no other store is made.
C30_StartupProtocol ==
    /\ [](wstate.fell_back => (ConfiguredRelational /\ wstate.session_store = FallbackStore))
    /\ []((wpc = "started" /\ wstate.fell_back) => wstate.store = FallbackStore)
    /\ [][(wpc = "init" /\ wpc' # "init" /\ wstate'.error # "")
            => IF ConfiguredRelational
               THEN /\ wpc' = "fallback_init"
                    /\ wstate'.session_store = FallbackStore
               ELSE /\ wpc' = "startup_failed"
                    /\ wstate'.error \in InitErrors
                    /\ wstate'.session_store = wstate.session_store
                    /\ ~wstate'.fell_back]_vars
    /\ [](wpc = "started" <=> (wstate.inits # << >> /\ wstate.inits[Len(wstate.inits)].ok))
    /\ []((wpc = "startup_failed" /\ wstate.fell_back)
            => wstate.inits = <<[kind |-> "postgres", ok |-> FALSE],
                               [kind |-> "memory", ok |-> FALSE]>>)
    /\ [][(wstate.fell_back /\ calls' # calls)
            => calls'[Len(calls')].by = ValueOf(FallbackStore)]_vars

C30_Witness ==
    /\ wpc = "started"
    /\ wstate.fell_back
    /\ wstate.error = "connection refused"
    /\ Len(calls) = 2
    /\ calls[1].by.kind = "postgres"
    /\ calls[2].by = ValueOf(FallbackStore)


----------------------------------------------------------------------------
(* C31: across the persisted writes of one incident the incident id never
   changes and the external references are set at most once: a stored state
   that holds a ticket key or a PR number is followed only by stored states
   that hold it too, and at most one ticket and one PR are created. *)

Persisted == heap[store]

\* C31: one ticket and one PR at most; the stored id is the id drawn; a
\* stored ticket key or PR number is never dropped
C31_ReferencesSetOnce ==
    /\ [](/\ Cardinality(Issued("create_ticket")) <= 1
          /\ Cardinality(Issued("create_pr")) <= 1
          /\ store # 0 => Persisted.incident_id = IncidentId)
    /\ [][store # 0 =>
            /\ store' # 0
            /\ Persisted'.incident_id = Persisted.incident_id
            /\ Persisted.ticket_key => Persisted'.ticket_key
            /\ Persisted.remediation.pr_number => Persisted'.remediation.pr_number]_vars

\* a recovered run whose ticket and PR survived an approve-merge save
C31_Witness ==
    /\ store # 0
    /\ Persisted.execution_path = "adk_recovered"
    /\ Persisted.ticket_key
    /\ Persisted.remediation.pr_number
    /\ Persisted.remediation.pr_merged
    /\ Cardinality(Issued("create_ticket")) = 1
    /\ Cardinality(Issued("create_pr")) = 1


----------------------------------------------------------------------------
(* C32: the timeline is append-only: the timeline of every stored state
   begins with incident_created and extends the timeline stored before it,
   across the webhook's two saves and every approve-merge save. *)

IsPrefix(s, t) == Len(s) <= Len(t) /\ SubSeq(t, 1, Len(s)) = s

\* C32: every stored timeline starts with incident_created and extends the
\* one stored before
C32_TimelineAppendOnly ==
    /\ [](store # 0 => /\ Len(Persisted.timeline) > 0
                       /\ Persisted.timeline[1] = "incident_created")
    /\ [][store # 0 => IsPrefix(Persisted.timeline, Persisted'.timeline)]_vars


----------------------------------------------------------------------------
(* C33: PR creation is idempotent under re-drive: a call of
   create_remediation_pr for an incident whose branch and open pull request
   already exist takes the existing branch as success, opens no second pull
   request and returns the number and URL of the existing one; it raises
   only if one of its HTTP calls fails. *)

Driven == wstate'.drives = wstate.drives + 1

Redriven ==
    /\ Driven
    /\ BranchName(result'[1].incident_id) \in wstate.host.refs
    /\ Len(OpenPulls(wstate.host, BranchName(result'[1].incident_id))) > 0

\* C33: a re-drive adds no ref and no pull request and returns the open one
C33_RedriveIdempotent ==
    [][Redriven =>
         LET existing == OpenPulls(wstate.host, BranchName(result'[1].incident_id))[1]
         IN /\ wstate'.host.pulls = wstate.host.pulls
            /\ wstate'.host.refs = wstate.host.refs
            /\ result'[1].raised <=> result'[1].fault # "none"
            /\ ~result'[1].raised =>
                 /\ result'[1].pr_number = Some(existing.number)
                 /\ result'[1].pr_url = Some(existing.html_url)]_vars

\* the second incident was driven twice without a fault: one pull request
C33_Witness ==
    /\ wpc = "github"
    /\ wstate.drives = 3
    /\ Len(wstate.host.pulls) = 2
    /\ wstate.host.commits[BranchName("INC-5E6F7A8B")] = 2
    /\ result[1] = [incident_id |-> "INC-5E6F7A8B", fault |-> "none", raised |-> FALSE,
                    pr_number |-> Some(2), pr_url |-> Some(<<"pull", 2>>)]


----------------------------------------------------------------------------
(* C34: every admitted webhook request completes, provided every provider
   and runner call returns or raises: the request reaches its final save and
   returns, and the state stored then reflects the pipeline's outcome (an
   execution path other than pending and a remediation result); no failure
   leaves the incident in its initial accepted_for_processing state. *)

OutcomePersisted ==
    /\ store # 0
    /\ Persisted.incident_id = IncidentId
    /\ Persisted.execution_path \in {"adk", "adk_recovered", "adk_unavailable"}
    /\ Persisted.remediation.present
    /\ Persisted.timeline[1] = "incident_created"

----------------------------------------------------------------------------
(* C35: a raising ticket creation is followed by no transition and no PR
   creation; a raising ticket or PR creation does not leave
   apply_direct_integrations as an exception: the state it returns has a
   failed remediation (success false, not merged, no PR reference, an error
   message) and ci_status pending, so the derived status is processing and
   an approve-merge is rejected with pr_not_created. *)

ReturnedByIntegrations(s) == s.execution_path \in {"adk", "adk_recovered"}

TicketCreationRaised(s) ==
    ReturnedByIntegrations(s) /\ Issued("create_ticket") = {}

PrCreationRaised(s) ==
    /\ ReturnedByIntegrations(s)
    /\ Issued("create_ticket") # {}
    /\ Issued("create_pr") = {}

FailureState(s) ==
    /\ s.remediation.present
    /\ ~s.remediation.success
    /\ ~s.remediation.pr_merged
    /\ ~s.remediation.pr_number
    /\ ~s.remediation.pr_url
    /\ s.remediation.error_message # ""
    /\ s.ci_status = "pending"
    /\ derive_status_fields(s)[1] = "processing"
    /\ evaluate_approval_request(s) = "pr_not_created"

FailureHandled(s) ==
    /\ TicketCreationRaised(s) =>
         /\ FailureState(s)
         /\ ~s.ticket_key
         /\ \A i \in DOMAIN calls : calls[i].by # W
    /\ PrCreationRaised(s) => FailureState(s) /\ s.ticket_key

\* C35: a raising ticket or PR creation ends in a returned failure state,
\* stored as such and refused for approval with pr_not_created
C35_CreationFailureReturned ==
    /\ [](/\ wpc = "save_final" => FailureHandled(wstate)
          /\ (wpc = "done" /\ store # 0) =>
               /\ FailureHandled(Persisted)
               /\ (TicketCreationRaised(Persisted) \/ PrCreationRaised(Persisted)) =>
                    \* not_found: a request from before the incident was stored
                    \A r \in Reqs :
                       result[r] \in {"none", "not_found", "pr_not_created"})
    /\ [][(wpc = "create_ticket" /\ wpc' # wpc /\ Issued("create_ticket")' = {})
            => (wpc' = "save_final" /\ TicketCreationRaised(wstate'))]_vars
    /\ [][(wpc = "create_pr" /\ wpc' # wpc /\ Issued("create_pr")' = {})
            => (wpc' = "save_final" /\ PrCreationRaised(wstate'))]_vars

\* PR creation raised, the state was stored and an approve-merge was refused
C35_Witness ==
    /\ wpc = "done"
    /\ store # 0
    /\ PrCreationRaised(Persisted)
    /\ Persisted.remediation.error_message = "GitHub provider failure"
    /\ result[1] = "pr_not_created"


----------------------------------------------------------------------------
(* C36: every ticket transition of the pipeline whose provider call returned
   a result appends exactly one entry to jira_transitions and exactly one
   timeline event, ticket_moved_<stage> when the result is ok and
   ticket_transition_failed otherwise, and the pipeline goes on to the next
   transition or to PR creation; a transition that raises (strict mode)
   appends nothing and ends the pipeline with the adk_unavailable state. *)

TransitionStages == {"todo", "in_progress", "in_review"}

TransitionAttempted == wpc \in TransitionStages /\ wpc' # wpc

Last(seq) == seq[Len(seq)]

TransitionRecorded ==
    /\ Len(wstate'.jira_transitions) = Len(wstate.jira_transitions) + 1
    /\ SubSeq(wstate'.jira_transitions, 1, Len(wstate.jira_transitions))
         = wstate.jira_transitions
    /\ Last(wstate'.jira_transitions).to_status = StageStatus(wpc)
    /\ Len(wstate'.timeline) = Len(wstate.timeline) + 1
    /\ IsPrefix(wstate.timeline, wstate'.timeline)
    /\ Last(wstate'.timeline) = IF Last(wstate'.jira_transitions).ok
                                THEN "ticket_moved_" \o wpc
                                ELSE "ticket_transition_failed"
    /\ Len(calls') = Len(calls) + 1
    /\ Last(calls') = Call("transition_" \o wpc, Last(wstate'.jira_transitions).ok, W)
    /\ wpc' = NextStage(wpc)

TransitionRaised ==
    /\ cfg.strict
    /\ cfg.jira = "api"
    /\ calls' = calls
    /\ wpc' = "save_final"
    /\ wstate' = _build_adk_unavailable_state

----------------------------------------------------------------------------
(* C37: when the alert overrides target_file with a path under infra/, the
   stored thought signature has root_cause_category config_error and
   recommended_action config_change, the remediation's action_taken is
   config_change and the decision is recorded in the trace's
   action_guardrail, whatever the signals scored. *)

UnderInfra(target_file) == target_file = Some("infra/dns/coredns-config.yaml")

\* C37: a target under infra/ gives config_error / config_change and a
\* recorded guardrail decision
C37_InfraTargetForcesConfigChange ==
    (wpc = "signed" /\ UnderInfra(cfg.target_file)) =>
        /\ result[1].thought_signature.target_file = ValueOf(cfg.target_file)
        /\ result[1].thought_signature.root_cause_category = "config_error"
        /\ result[1].thought_signature.recommended_action = "config_change"
        /\ result[1].action_taken = "config_change"
        /\ result[1].action_guardrail # None


----------------------------------------------------------------------------
(* C38: the merge outcome is never lost: an approve-merge request whose
   merge_pr call returned success does not end before the stored incident
   has pr_merged and approval.approved set, whatever fails after the merge
   call. *)

MergedInRequest(r) == apc[r] \in {"transition", "save"} /\ aloc[r].merge_called

\* C38: a request that merged ends only with the merge stored
C38_MergeOutcomeStored ==
    [][\A r \in Reqs :
         (MergedInRequest(r) /\ apc'[r] = "idle")
            => /\ store' # 0
               /\ Persisted'.remediation.pr_merged
               /\ Persisted'.approval.approved]_vars


----------------------------------------------------------------------------
(* C39: for an alert that triage classified as not actionable no ticket and
   no PR is created: the pipeline stops after triage with ci_status pending
   and no remediation PR. *)

C39_NotActionableStops ==
    (wpc = "integrated" /\ ~result[1].validated_alert.is_actionable)
        => /\ Issued("create_ticket") = {}
           /\ Issued("create_pr") = {}
           /\ result[1].incident.ci_status = "pending"
           /\ ~_has_pr(result[1].incident.remediation)


----------------------------------------------------------------------------
(* C40: the pipeline stores ci_status ci_passed only when a merge-gate fetch
   for the incident's PR reported that CI passed; when no gate status was
   fetched ci_status is pending, so the incident is not approvable without
   an observed CI success. *)

C40_CiPassedOnlyObserved ==
    wpc = "persisted" =>
        /\ result[1].incident.ci_status = "ci_passed"
              => IssuedOk("get_merge_gate_status")
        /\ Issued("get_merge_gate_status") = {}
              => /\ result[1].incident.ci_status = "pending"
                 /\ ~Approvable(result[1].incident)
====
